---- MODULE Spec2Model ----
(***************************************************************************)
(* Model of the SQLite viewer's database bridge (src/src/dbBridge.ts) and  *)
(* of the worker that owns the sql.js database (src/src/dbWorker.ts).      *)
(*                                                                         *)
(* The main thread and the worker exchange messages over two FIFO          *)
(* channels (postMessage).  The bridge keeps a map from correlation id to  *)
(* the promise of the call; the worker keeps the engine module SQL and the *)
(* single database handle db.                                              *)
(*                                                                         *)
(* The second part models the workspace of src/src/App.tsx: the pane       *)
(* collection tabs, the tab order, and the drag gesture of a pane.         *)
(***************************************************************************)
EXTENDS Integers, Sequences, FiniteSets, TLC

\* ------------------------------------------------------------------ bounds
MaxRequests == 2         \* calls of the bridge's exported functions (Spec)
MaxErrors == 1           \* error events of the worker (Spec)
MaxSessionRequests == 2  \* calls that follow the session's openDb (SpecSession)
MaxStmts == 2            \* statements in one SQL text (SpecExec)
MaxExecRequests == 1     \* execQuery calls that follow the openDb (SpecExec)
MaxPanes == 2            \* pane ids generated in one run (SpecWs)
MaxZ == 2                \* greatest rendered z-order a focus may start from (SpecWs)
MaxTabPanes == 3         \* pane ids generated in one run (SpecTabs)
MaxDragPanes == 2        \* pane ids generated in one run (SpecDrag)
MaxMoves == 2            \* pointer-move events in one run (SpecDrag)
MaxQueryPanes == 2       \* pane ids generated in one run (SpecQuery)
MaxEditPanes == 2        \* pane ids generated in one run (SpecEdit)
MaxRuns == 1             \* handleExecuteQuery calls awaiting their response (SpecQuery)
MaxSizePanes == 1        \* pane ids generated in one run (SpecSize)

VARIABLES
  worker,      \* dbBridge.ts: worker (FALSE = null, TRUE = created)
  nextId,      \* dbBridge.ts: nextId
  pending,     \* dbBridge.ts: pending, correlation id -> index of the promise
  promises,    \* the promises returned by the exported functions, in call order
  toWorker,    \* messages posted to the worker and not yet handled
  fromWorker,  \* responses posted by the worker and not yet delivered
  SQL,         \* dbWorker.ts: SQL (FALSE = null, TRUE = engine initialised)
  db,          \* dbWorker.ts: db (inst = 0 is null)
  suspended,   \* open handlers suspended at "await ensureSql"
  created,     \* number of Database instances constructed so far
  live,        \* Database instances constructed and not closed
  errors,      \* number of error events of the worker so far
  loadState,   \* App.tsx: loadState
  tabs,        \* App.tsx: tabs, the latest state (every queued update applied)
  rTabs,       \* App.tsx: tabs as of the last render, which the handlers close over
  tabOrder,    \* App.tsx: tabOrder
  ops,         \* handleTableSelect calls suspended at "await execQuery", oldest first
  nextPane,    \* number of pane ids generated so far
  draggingTabId,  \* App.tsx: the pane of the drag gesture in progress (0 = none)
  dragRaf,     \* App.tsx: dragRafRef (FALSE = null, TRUE = a frame is requested)
  dragPending, \* App.tsx: dragPendingRef (tabId = 0 is null)
  dragLog,     \* the pointer-moves since the last flush, and what the last flush covered
  runs,        \* handleExecuteQuery calls suspended at "await execQuery"
  lastRun,     \* the last response of a run: its table, and whether its pane was live
  sizeLog,     \* what the updater of the last updatePaneSize call returned
  loads,       \* handleFileUpload calls in progress: the step each one awaits
  store,       \* recentDb.ts: the entries of the object store
  saves,       \* recentDb.ts: the saveRecentDb calls, each at the step it awaits
  now,         \* Date.now()
  savedQueries, \* App.tsx: the saved queries
  persisted,   \* localStorage: the item of the saved queries
  nextSq,      \* number of saved-query ids generated so far
  tableInfo    \* dbWorker.ts: the last table_info rows read, and the primaryKey made of them

bridgeVars == <<worker, nextId, pending, promises, toWorker, fromWorker,
                SQL, db, suspended, created, live, errors>>

extVars == <<runs, lastRun, sizeLog, loads, store, saves, now,
            savedQueries, persisted, nextSq, tableInfo>>

wsVars == <<loadState, tabs, rTabs, tabOrder, ops, nextPane,
            draggingTabId, dragRaf, dragPending, dragLog,
            runs, lastRun, sizeLog, loads, store, saves, now,
            savedQueries, persisted, nextSq, tableInfo>>

vars == <<worker, nextId, pending, promises, toWorker, fromWorker,
          SQL, db, suspended, created, live, errors,
          loadState, tabs, rTabs, tabOrder, ops, nextPane,
          draggingTabId, dragRaf, dragPending, dragLog,
          runs, lastRun, sizeLog, loads, store, saves, now,
            savedQueries, persisted, nextSq, tableInfo>>

\* ------------------------------------------------------------ the engine
\* A SQL text is a sequence of statements.  selA and selB are row-returning
\* statements with different result sets, selNone is a SELECT that matches
\* no row, insert is a mutating statement, bad is a statement that the
\* engine rejects.
Stmts == {"selA", "selB", "selNone", "insert", "bad"}

EngineMessage == "near bad: syntax error"
NotOpenMessage == "Database not open"
NoTableMessage == "no such table"
InitMessage == "engine initialisation failed"
ImageMessage == "file is not a database"

Images == {"valid", "invalid"}
Tables == {"t"}
TableArgs == {"t", "missing"}

NoDb == [inst |-> 0, changes |-> 0, rowid |-> 0]

\* rows a statement steps through: the columns and the rows' values
StmtRows(s) ==
  IF s = "selA" THEN [columns |-> <<"a">>, values |-> << <<11>> >>]
  ELSE IF s = "selB" THEN [columns |-> <<"b">>, values |-> << <<21>>, <<22>> >>]
  ELSE [columns |-> <<>>, values |-> <<>>]

StmtEffect(d, s) ==
  IF s = "insert" THEN [d EXCEPT !.changes = 1, !.rowid = d.rowid + 1] ELSE d

\* Database.exec: runs the statements in order; a statement contributes a
\* result only when it stepped through at least one row; the first failing
\* statement throws, and the effects of the statements before it stay.
RECURSIVE RunStmts(_, _, _)
RunStmts(d, q, acc) ==
  IF q = <<>> THEN [threw |-> FALSE, message |-> "", results |-> acc, db |-> d]
  ELSE IF Head(q) = "bad"
       THEN [threw |-> TRUE, message |-> EngineMessage, results |-> <<>>, db |-> d]
       ELSE RunStmts(StmtEffect(d, Head(q)), Tail(q),
                     IF StmtRows(Head(q)).values # <<>>
                     THEN Append(acc, StmtRows(Head(q))) ELSE acc)

DbExec(d, q) == RunStmts(d, q, <<>>)

\* db.exec('SELECT changes() AS changes, last_insert_rowid() AS last_insert_rowid')
ChangeRes(d) ==
  << [columns |-> <<"changes", "last_insert_rowid">>,
      values |-> << <<d.changes, d.rowid>> >>] >>

\* ------------------------------------------------------------ the bridge
NoValue == [tag |-> "none", message |-> "", columns |-> <<>>, values |-> <<>>]

Promise(kind, arg, id) ==
  [kind |-> kind, arg |-> arg, id |-> id, state |-> "pending",
   value |-> NoValue, by |-> 0]

Message(type, id, arg) == [type |-> type, id |-> id, arg |-> arg]

Response(type, id, message, result) ==
  [type |-> type, id |-> id, message |-> message, result |-> result]

\* const id = nextId++ : the value of nextId after the call
\* (NextIdNotIncremented: the fault of handing out nextId without advancing it)
NextIdNotIncremented(n) == n
NextIdAfter(n) == n + 1

\* pending.set(id, {resolve, reject})
PendingSet(pend, id, p) ==
  [i \in DOMAIN pend \cup {id} |-> IF i = id THEN p ELSE pend[i]]

\* pending.get(msg.id)
\* (PendingGetOldest: the fault of assuming responses arrive in request order)
PendingGetOldest(pend, id) ==
  pend[CHOOSE i \in DOMAIN pend : \A j \in DOMAIN pend : i <= j]
PendingGet(pend, id) == pend[id]

\* pending.delete(msg.id)
\* (PendingDeleteSkipped: the fault of leaving the entry in the map)
PendingDeleteSkipped(pend, id) == pend
PendingDelete(pend, id) == [i \in DOMAIN pend \ {id} |-> pend[i]]

\* the value a 'result' response resolves with: msg.result[0] or null
\* (ResultValueOfLast: the fault of taking the last result instead of result[0])
ResultValueOfLast(result) ==
  IF result # <<>>
  THEN [tag |-> "result", message |-> "",
        columns |-> result[Len(result)].columns, values |-> result[Len(result)].values]
  ELSE [NoValue EXCEPT !.tag = "null"]
ResultValue(result) ==
  IF result # <<>>
  THEN [tag |-> "result", message |-> "",
        columns |-> result[1].columns, values |-> result[1].values]
  ELSE [NoValue EXCEPT !.tag = "null"]

\* worker.onmessage after the lookup: how the response settles the promise
Settle(pr, msg) ==
  IF msg.type = "opened"
  THEN [pr EXCEPT !.state = "resolved", !.value = [NoValue EXCEPT !.tag = "undefined"],
                  !.by = msg.id]
  ELSE IF msg.type \in {"error", "execError"}
  THEN [pr EXCEPT !.state = "rejected",
                  !.value = [NoValue EXCEPT !.tag = "Error", !.message = msg.message],
                  !.by = msg.id]
  ELSE IF msg.type = "result"
  THEN [pr EXCEPT !.state = "resolved", !.value = ResultValue(msg.result), !.by = msg.id]
  ELSE IF msg.type \in {"tableNames", "tableInfo", "exported", "advancedSearchResult"}
  THEN [pr EXCEPT !.state = "resolved", !.value = [NoValue EXCEPT !.tag = msg.type],
                  !.by = msg.id]
  ELSE pr

\* a call of an exported function: takes the id, registers the promise,
\* creates the worker on first use and posts the message
Send(kind, arg) ==
  /\ nextId' = NextIdAfter(nextId)
  /\ promises' = Append(promises, Promise(kind, arg, nextId))
  /\ pending' = PendingSet(pending, nextId, Len(promises) + 1)
  /\ worker' = TRUE
  /\ toWorker' = Append(toWorker, Message(kind, nextId, arg))
  /\ UNCHANGED wsVars
  /\ UNCHANGED <<fromWorker, SQL, db, suspended, created, live, errors>>

openDb(bytes) == Send("open", bytes)
execQuery(query) == Send("exec", query)
getTableNames == Send("getTableNames", "")
getTableInfo(name) == Send("getTableInfo", name)
exportDb == Send("export", "")
advancedSearchRaw == Send("advancedSearchRaw", "")
advancedSearchJson == Send("advancedSearchJson", "")

\* worker.onmessage
OnMessage ==
  /\ fromWorker # <<>>
  /\ fromWorker' = Tail(fromWorker)
  /\ LET msg == Head(fromWorker) IN
       IF msg.id \notin DOMAIN pending
       THEN UNCHANGED <<pending, promises>>
       ELSE LET p == PendingGet(pending, msg.id) IN
              /\ pending' = PendingDelete(pending, msg.id)
              /\ promises' = [promises EXCEPT ![p] = Settle(@, msg)]
  /\ UNCHANGED wsVars
  /\ UNCHANGED <<worker, nextId, toWorker, SQL, db, suspended, created, live, errors>>


\* worker.onerror: every pending promise is rejected with the error event
\* (RejectPendingFirstOnly: the fault of rejecting only the oldest entry)
RejectPendingFirstOnly(ps, pend) ==
  [k \in DOMAIN ps |->
     IF \E i \in DOMAIN pend : pend[i] = k /\ \A j \in DOMAIN pend : i <= j
     THEN [ps[k] EXCEPT !.state = "rejected", !.value = [NoValue EXCEPT !.tag = "ErrorEvent"]]
     ELSE ps[k]]
\* (RejectEvery: the fault of rejecting the promises of all requests made)
RejectEvery(ps, pend) ==
  [k \in DOMAIN ps |->
     [ps[k] EXCEPT !.state = "rejected", !.value = [NoValue EXCEPT !.tag = "ErrorEvent"]]]
RejectPending(ps, pend) ==
  [k \in DOMAIN ps |->
     IF \E i \in DOMAIN pend : pend[i] = k
     THEN [ps[k] EXCEPT !.state = "rejected", !.value = [NoValue EXCEPT !.tag = "ErrorEvent"]]
     ELSE ps[k]]

OnError ==
  /\ worker
  /\ errors < MaxErrors
  /\ errors' = errors + 1
  /\ promises' = RejectPending(promises, pending)
  /\ pending' = << >>
  /\ UNCHANGED wsVars
  /\ UNCHANGED <<worker, nextId, toWorker, fromWorker, SQL, db, suspended, created, live>>

\* ------------------------------------------------------------ the worker
Post(r) == fromWorker' = Append(fromWorker, r)

\* db.close(); db = null : the instances that stay open
\* (CloseDbSkipped: the fault of dropping the handle without closing it)
CloseDbSkipped(l, d) == l
CloseDb(l, d) == IF d.inst # 0 THEN l \ {d.inst} ELSE l

\* the open branch after "await ensureSql(msg.baseUrl)" has returned
OpenFinish(msg) ==
  IF msg.arg = "valid"
  THEN /\ created' = created + 1
       /\ db' = [inst |-> created + 1, changes |-> 0, rowid |-> 0]
       /\ live' = CloseDb(live, db) \cup {created + 1}
       /\ Post(Response("opened", msg.id, "", <<>>))
  ELSE \* new SQL.Database(...) throws: db was closed and set to null before
       /\ created' = created
       /\ db' = NoDb
       /\ live' = CloseDb(live, db)
       /\ Post(Response("error", msg.id, ImageMessage, <<>>))

\* open, engine already initialised: ensureSql returns at once
WorkerOpen ==
  /\ toWorker # <<>> /\ Head(toWorker).type = "open" /\ SQL
  /\ toWorker' = Tail(toWorker)
  /\ OpenFinish(Head(toWorker))
  /\ UNCHANGED wsVars
  /\ UNCHANGED <<worker, nextId, pending, promises, SQL, suspended, errors>>

\* open, SQL is null: ensureSql calls initSqlJs and the handler is suspended
WorkerOpenAwait ==
  /\ toWorker # <<>> /\ Head(toWorker).type = "open" /\ ~SQL
  /\ toWorker' = Tail(toWorker)
  /\ suspended' = suspended \cup {Head(toWorker)}
  /\ UNCHANGED wsVars
  /\ UNCHANGED <<worker, nextId, pending, promises, fromWorker, SQL, db, created, live, errors>>

\* initSqlJs resolves for a suspended handler: SQL is set and the handler goes on
InitResolved ==
  \E msg \in suspended :
    /\ suspended' = suspended \ {msg}
    /\ SQL' = TRUE
    /\ OpenFinish(msg)
    /\ UNCHANGED wsVars
    /\ UNCHANGED <<worker, nextId, pending, promises, toWorker, errors>>

\* initSqlJs rejects for a suspended handler: the catch block answers
InitRejected ==
  \E msg \in suspended :
    /\ suspended' = suspended \ {msg}
    /\ Post(Response("error", msg.id, InitMessage, <<>>))
    /\ UNCHANGED wsVars
    /\ UNCHANGED <<worker, nextId, pending, promises, toWorker, SQL, db, created, live, errors>>

\* if (!db) : any request other than open while no database is open
\* (WorkerNotOpenSilent: the fault of dropping the request without an answer)
WorkerNotOpenSilent ==
  /\ toWorker # <<>> /\ Head(toWorker).type # "open" /\ db.inst = 0
  /\ toWorker' = Tail(toWorker)
  /\ UNCHANGED wsVars
  /\ UNCHANGED <<worker, nextId, pending, promises, fromWorker, SQL, db, suspended,
                 created, live, errors>>
WorkerNotOpen ==
  /\ toWorker # <<>> /\ Head(toWorker).type # "open" /\ db.inst = 0
  /\ toWorker' = Tail(toWorker)
  /\ Post(Response("error", Head(toWorker).id, NotOpenMessage, <<>>))
  /\ UNCHANGED wsVars
  /\ UNCHANGED <<worker, nextId, pending, promises, SQL, db, suspended, created, live, errors>>

\* the exec branch: what is posted as the result
\* (SerializedAsReturned: the fault of posting the engine's results unchanged)
SerializedAsReturned(result, d) == result
Serialized(result, d) ==
  IF result = <<>> \/ Len(result[1].columns) = 0 THEN ChangeRes(d) ELSE result

\* the catch block leaves db as the failing call left it
\* (DbAfterThrowClosed: the fault of dropping the database on a failed call)
DbAfterThrowClosed(d) == NoDb
DbAfterThrow(d) == d

WorkerExec ==
  /\ toWorker # <<>> /\ Head(toWorker).type = "exec" /\ db.inst # 0
  /\ toWorker' = Tail(toWorker)
  /\ LET msg == Head(toWorker)
         r == DbExec(db, msg.arg)
     IN IF r.threw
        THEN /\ db' = DbAfterThrow(r.db)
             /\ Post(Response("execError", msg.id, r.message, <<>>))
        ELSE /\ db' = r.db
             /\ Post(Response("result", msg.id, "", Serialized(r.results, r.db)))
  /\ UNCHANGED wsVars
  /\ UNCHANGED <<worker, nextId, pending, promises, SQL, suspended, created, live, errors>>

WorkerGetTableNames ==
  /\ toWorker # <<>> /\ Head(toWorker).type = "getTableNames" /\ db.inst # 0
  /\ toWorker' = Tail(toWorker)
  /\ Post(Response("tableNames", Head(toWorker).id, "", <<>>))
  /\ UNCHANGED wsVars
  /\ UNCHANGED <<worker, nextId, pending, promises, SQL, db, suspended, created, live, errors>>

\* getTableInfo(msg.name): the count query throws for a table that does not exist
WorkerGetTableInfo ==
  /\ toWorker # <<>> /\ Head(toWorker).type = "getTableInfo" /\ db.inst # 0
  /\ toWorker' = Tail(toWorker)
  /\ IF Head(toWorker).arg \in Tables
     THEN Post(Response("tableInfo", Head(toWorker).id, "", <<>>))
     ELSE Post(Response("error", Head(toWorker).id, NoTableMessage, <<>>))
  /\ UNCHANGED wsVars
  /\ UNCHANGED <<worker, nextId, pending, promises, SQL, db, suspended, created, live, errors>>

WorkerExport ==
  /\ toWorker # <<>> /\ Head(toWorker).type = "export" /\ db.inst # 0
  /\ toWorker' = Tail(toWorker)
  /\ Post(Response("exported", Head(toWorker).id, "", <<>>))
  /\ UNCHANGED wsVars
  /\ UNCHANGED <<worker, nextId, pending, promises, SQL, db, suspended, created, live, errors>>

\* a message type that no branch of self.onmessage matches, with a database
\* open: the handler returns without posting anything
WorkerUnhandled ==
  /\ toWorker # <<>> /\ db.inst # 0
  /\ Head(toWorker).type \notin {"open", "exec", "getTableNames", "getTableInfo", "export"}
  /\ toWorker' = Tail(toWorker)
  /\ UNCHANGED wsVars
  /\ UNCHANGED <<worker, nextId, pending, promises, fromWorker, SQL, db, suspended,
                 created, live, errors>>

\* ------------------------------------------------------- specifications
Init ==
  /\ worker = FALSE
  /\ nextId = 1
  /\ pending = << >>
  /\ promises = << >>
  /\ toWorker = << >>
  /\ fromWorker = << >>
  /\ SQL = FALSE
  /\ db = NoDb
  /\ suspended = {}
  /\ created = 0
  /\ live = {}
  /\ errors = 0
  /\ loadState = "idle"
  /\ tabs = << >>
  /\ rTabs = << >>
  /\ tabOrder = << >>
  /\ ops = << >>
  /\ nextPane = 0
  /\ draggingTabId = 0
  /\ dragRaf = FALSE
  /\ dragPending = [tabId |-> 0, x |-> 0, y |-> 0]
  /\ dragLog = [moves |-> << >>, flushed |-> << >>, total |-> 0]
  /\ runs = << >>
  /\ lastRun = [tableName |-> "", live |-> FALSE]
  /\ sizeLog = "none"
  /\ loads = << >>
  /\ store = {}
  /\ saves = << >>
  /\ now = 0
  /\ savedQueries = << >>
  /\ persisted = << >>
  /\ nextSq = 0
  /\ tableInfo = [rows |-> << >>, primaryKey |-> << >>]

\* the SQL texts the bridge protocol is exercised with
Queries == { <<"insert">>, <<"insert", "bad">> }

\* every SQL text of at most MaxStmts statements
RECURSIVE TextsOfLen(_)
TextsOfLen(n) ==
  IF n = 0 THEN { << >> }
  ELSE { Append(q, s) : q \in TextsOfLen(n - 1), s \in Stmts }

SqlTexts == UNION { TextsOfLen(n) : n \in 1..MaxStmts }

WorkerStep ==
  \/ WorkerOpen
  \/ WorkerOpenAwait
  \/ InitResolved
  \/ InitRejected
  \/ WorkerNotOpen
  \/ WorkerExec
  \/ WorkerGetTableNames
  \/ WorkerGetTableInfo
  \/ WorkerExport
  \/ WorkerUnhandled

\* any calls of the exported functions, in any order
Next ==
  \/ Len(promises) < MaxRequests /\ \E bytes \in Images : openDb(bytes)
  \/ Len(promises) < MaxRequests /\ \E query \in Queries : execQuery(query)
  \/ Len(promises) < MaxRequests /\ getTableNames
  \/ Len(promises) < MaxRequests /\ \E name \in TableArgs : getTableInfo(name)
  \/ Len(promises) < MaxRequests /\ exportDb
  \/ Len(promises) < MaxRequests /\ advancedSearchRaw
  \/ Len(promises) < MaxRequests /\ advancedSearchJson
  \/ OnMessage
  \/ OnError
  \/ WorkerOpen
  \/ WorkerOpenAwait
  \/ InitResolved
  \/ InitRejected
  \/ WorkerNotOpen
  \/ WorkerExec
  \/ WorkerGetTableNames
  \/ WorkerGetTableInfo
  \/ WorkerExport
  \/ WorkerUnhandled

Spec == Init /\ [][Next]_vars

\* the worker handles every message delivered to it, initSqlJs settles, and
\* the main thread's event loop delivers every response
FairSpec == Spec /\ WF_vars(WorkerStep) /\ WF_vars(OnMessage)

\* a session: the first call opens a valid image, any calls follow
InSession == promises # << >> /\ Len(promises) <= MaxSessionRequests

NextSession ==
  \/ promises = << >> /\ openDb("valid")
  \/ InSession /\ \E bytes \in Images : openDb(bytes)
  \/ InSession /\ \E query \in Queries : execQuery(query)
  \/ InSession /\ getTableNames
  \/ InSession /\ \E name \in TableArgs : getTableInfo(name)
  \/ InSession /\ exportDb
  \/ InSession /\ advancedSearchRaw
  \/ InSession /\ advancedSearchJson
  \/ OnMessage
  \/ WorkerOpen
  \/ WorkerOpenAwait
  \/ InitResolved
  \/ WorkerNotOpen
  \/ WorkerExec
  \/ WorkerGetTableNames
  \/ WorkerGetTableInfo
  \/ WorkerExport
  \/ WorkerUnhandled

SpecSession == Init /\ [][NextSession]_vars

\* a session that runs SQL texts: one openDb, then execQuery calls
NextExec ==
  \/ promises = << >> /\ openDb("valid")
  \/ /\ promises # << >> /\ Len(promises) <= MaxExecRequests
     /\ \E query \in SqlTexts : execQuery(query)
  \/ OnMessage
  \/ WorkerOpenAwait
  \/ InitResolved
  \/ WorkerNotOpen
  \/ WorkerExec

SpecExec == Init /\ [][NextExec]_vars

\* ---------------------------------------------------------------- claims
Settled(k) == promises[k].state # "pending"

\* C1: every request carries a correlation id strictly greater than the id
\* of every request sent before it, so no id is used twice, also after an
\* earlier id was answered and removed from the pending map.
C1_IdsStrictlyIncrease ==
  \A i, j \in DOMAIN promises : i < j => promises[i].id < promises[j].id

\* a request was sent after the response of an earlier one had removed its entry
C1_Witness ==
  \E i, j \in DOMAIN promises :
    /\ i < j
    /\ promises[i].by = promises[i].id
    /\ promises[i].id \notin DOMAIN pending
    /\ promises[j].id \in DOMAIN pending

\* the tags a call of each kind can be settled with by a response to it
TagsOf(kind) ==
  {"Error"} \cup
  (IF kind = "open" THEN {"undefined"}
   ELSE IF kind = "exec" THEN {"result", "null"}
   ELSE IF kind = "getTableNames" THEN {"tableNames"}
   ELSE IF kind = "getTableInfo" THEN {"tableInfo"}
   ELSE IF kind = "export" THEN {"exported"}
   ELSE {"advancedSearchResult"})

\* C2: whatever the order of the responses, a response settles exactly the
\* request whose correlation id it carries, with a payload of that request.
C2_SettledByOwnResponse ==
  \A k \in DOMAIN promises :
    promises[k].by # 0 =>
      /\ promises[k].by = promises[k].id
      /\ promises[k].value.tag \in TagsOf(promises[k].kind)

\* a later request was answered while an earlier one is still pending
C2_Witness ==
  \E i, j \in DOMAIN promises :
    /\ i < j
    /\ ~Settled(i)
    /\ promises[j].by = promises[j].id

\* C3: when the worker's error event fires, every request pending at that
\* moment is rejected and the pending map becomes empty.
C3_ErrorRejectsAllPending ==
  [][errors' # errors =>
       /\ DOMAIN pending' = {}
       /\ \A id \in DOMAIN pending : promises'[pending[id]].state = "rejected"]_vars

\* an error event has rejected two requests at once
C3_Witness ==
  /\ errors > 0
  /\ DOMAIN pending = {}
  /\ \E i, j \in DOMAIN promises :
       /\ i # j
       /\ promises[i].value.tag = "ErrorEvent"
       /\ promises[j].value.tag = "ErrorEvent"

\* C4: every request that was sent is eventually resolved or rejected,
\* given that the worker handles every message delivered to it, whether or
\* not a database is open when the request is handled.
C4_EventuallySettled ==
  \A k \in 1..MaxRequests :
    (Len(promises) >= k) ~> (Len(promises) >= k /\ Settled(k))

\* C5: the pending map holds exactly the ids of the requests that were sent
\* and have neither had a response handled nor been rejected by a failure.
C5_PendingIsUnsettled ==
  /\ DOMAIN pending = { promises[k].id : k \in { n \in DOMAIN promises : ~Settled(n) } }
  /\ \A id \in DOMAIN pending : promises[pending[id]].id = id

\* one request was answered and removed while another is still in the map
C5_Witness ==
  \E i, j \in DOMAIN promises :
    /\ promises[i].by # 0
    /\ promises[i].id \notin DOMAIN pending
    /\ promises[j].id \in DOMAIN pending

\* C6: the worker does not begin handling a request while the handler of
\* another one has not finished, open handlers awaiting the engine included.
C6_OneRequestAtATime ==
  [][suspended # {} => Len(toWorker') >= Len(toWorker)]_vars

\* C7: the worker holds at most one open database instance, the one db
\* refers to; no instance that was created and not closed is unreferenced.
C7_SingleInstance ==
  /\ Cardinality(live) <= 1
  /\ live = (IF db.inst = 0 THEN {} ELSE {db.inst})

\* a second open has replaced the database of the first
C7_Witness == created >= 2 /\ db.inst = created /\ live = {created}

\* the result sets of the statements of a SQL text that return rows, in order
RowResults(q) ==
  LET rows == [n \in 1..Len(q) |-> StmtRows(q[n])]
  IN SelectSeq(rows, LAMBDA r : r.values # << >>)

Succeeds(q) == \A n \in 1..Len(q) : q[n] # "bad"

ExecResolved(k) == promises[k].kind = "exec" /\ promises[k].state = "resolved"

\* C8 as written: for an Execute of which at least one statement produces
\* rows, the caller receives the result set of the last such statement.
C8_LastRowResult ==
  \A k \in DOMAIN promises :
    (ExecResolved(k) /\ RowResults(promises[k].arg) # << >>) =>
      LET rs == RowResults(promises[k].arg) IN
        /\ promises[k].value.tag = "result"
        /\ promises[k].value.columns = rs[Len(rs)].columns
        /\ promises[k].value.values = rs[Len(rs)].values

\* C8 amended: the caller receives the result set of the first statement
\* that produced rows.
C8_FirstRowResult ==
  \A k \in DOMAIN promises :
    (ExecResolved(k) /\ RowResults(promises[k].arg) # << >>) =>
      LET rs == RowResults(promises[k].arg) IN
        /\ promises[k].value.tag = "result"
        /\ promises[k].value.columns = rs[1].columns
        /\ promises[k].value.values = rs[1].values

\* an Execute with two row-returning statements of different results was answered
C8_Witness ==
  \E k \in DOMAIN promises :
    /\ ExecResolved(k)
    /\ Len(RowResults(promises[k].arg)) >= 2
    /\ RowResults(promises[k].arg)[1] # RowResults(promises[k].arg)[2]

\* C9: a successful Execute of which no statement produced rows gives the
\* caller exactly one row with the two columns changes and
\* last_insert_rowid, never an empty or null result.
C9_SyntheticRow ==
  \A k \in DOMAIN promises :
    (ExecResolved(k) /\ RowResults(promises[k].arg) = << >>) =>
      /\ promises[k].value.tag = "result"
      /\ promises[k].value.columns = <<"changes", "last_insert_rowid">>
      /\ Len(promises[k].value.values) = 1
      /\ Len(promises[k].value.values[1]) = 2

\* an Execute of mutating statements only was answered
C9_Witness ==
  \E k \in DOMAIN promises :
    /\ ExecResolved(k)
    /\ RowResults(promises[k].arg) = << >>
    /\ \E n \in 1..Len(promises[k].arg) : promises[k].arg[n] = "insert"

\* the worker takes a message whose SQL text the engine rejects
FailingExecHandled ==
  /\ toWorker # << >>
  /\ Head(toWorker).type = "exec"
  /\ db.inst # 0
  /\ ~Succeeds(Head(toWorker).arg)
  /\ toWorker' = Tail(toWorker)

\* the bridge takes the response of a failed Execute
ExecErrorDelivered ==
  /\ fromWorker # << >>
  /\ Head(fromWorker).type = "execError"
  /\ Head(fromWorker).id \in DOMAIN pending
  /\ fromWorker' = Tail(fromWorker)

\* C10: a failed Execute rejects only the promise of that execQuery call,
\* with the engine's message; the database handle stays open, every other
\* request stays as it was, and only an open request replaces the database.
C10_FailedExecIsLocal ==
  [][/\ FailingExecHandled =>
          /\ db'.inst = db.inst
          /\ live' = live
          /\ promises' = promises
          /\ pending' = pending
          /\ fromWorker' = Append(fromWorker,
                 Response("execError", Head(toWorker).id, EngineMessage, << >>))
     /\ ExecErrorDelivered =>
          LET msg == Head(fromWorker)
              k == pending[msg.id]
          IN /\ promises[k].kind = "exec"
             /\ promises'[k].state = "rejected"
             /\ promises'[k].value.message = EngineMessage
             /\ \A j \in DOMAIN promises : j # k => promises'[j] = promises[j]
             /\ DOMAIN pending' = DOMAIN pending \ {msg.id}
             /\ db' = db
     /\ (db.inst # 0 /\ db'.inst = 0) =>
          \/ suspended' # suspended
          \/ toWorker # << >> /\ Head(toWorker).type = "open"]_vars

\* an Execute failed and a request sent after it was served by the database
C10_Witness ==
  /\ db.inst # 0
  /\ \E k, j \in DOMAIN promises :
       /\ k < j
       /\ promises[k].kind = "exec"
       /\ promises[k].value.message = EngineMessage
       /\ promises[j].kind \notin {"open"}
       /\ promises[j].state = "resolved"

\* ======================================================================
\* The workspace (src/src/App.tsx)
\* ======================================================================
DEFAULT_PANE_WIDTH == 560
DEFAULT_PANE_HEIGHT == 560
PANE_OFFSET == 28
PANE_ORIGIN == 20
SAVED_PANE_WIDTH == 380
SAVED_PANE_HEIGHT == 420

\* the tables of the open database, and the coordinates a pointer-move reports
TableNames == {"t", "u"}
Points == { <<-5, -5>>, <<-5, 3>>, <<7, 3>> }

NoPending == [tabId |-> 0, x |-> 0, y |-> 0]

Max2(a, b) == IF a >= b THEN a ELSE b

Ids(ts) == { ts[n].id : n \in DOMAIN ts }

\* Math.max(...ts.map((t) => t.zIndex)), for a collection that is not empty
MathMaxZ(ts) == CHOOSE z \in { ts[n].zIndex : n \in DOMAIN ts } :
                  \A n \in DOMAIN ts : ts[n].zIndex <= z

\* tabs.length === 0 ? 0 : Math.max(...)
MaxZOrZero(ts) == IF ts = << >> THEN 0 ELSE MathMaxZ(ts)

\* the TableTab that handleTableSelect builds
TablePane(id, name, data, len, maxZ) ==
  [id |-> id, type |-> "table", tableName |-> name, tableData |-> data,
   query |-> "default", queryResult |-> "null", error |-> "null",
   x |-> PANE_ORIGIN + len * PANE_OFFSET, y |-> PANE_ORIGIN + len * PANE_OFFSET,
   width |-> DEFAULT_PANE_WIDTH, height |-> DEFAULT_PANE_HEIGHT,
   zIndex |-> maxZ + 1]

\* the SavedQueriesTab that openSavedQueriesPane builds (it has no table fields)
SavedPane(id, len, maxZ) ==
  [id |-> id, type |-> "saved-queries", tableName |-> "", tableData |-> "null",
   query |-> "", queryResult |-> "null", error |-> "null",
   x |-> PANE_ORIGIN + len * PANE_OFFSET, y |-> PANE_ORIGIN + len * PANE_OFFSET,
   width |-> SAVED_PANE_WIDTH, height |-> SAVED_PANE_HEIGHT,
   zIndex |-> maxZ + 1]

\* the tabOrder effect: ids of closed panes are pruned, ids not yet in the
\* order are appended in the order of tabs
\* (SyncTabOrderAppendsAll: the fault of appending the ids without looking
\* them up in prev)
SyncTabOrderAppendsAll(prev, ts) == prev \o [n \in DOMAIN ts |-> ts[n].id]
SyncTabOrder(prev, ts) ==
  LET kept == SelectSeq(prev, LAMBDA id : id \in Ids(ts))
      inPrev == { prev[n] : n \in DOMAIN prev }
      added == SelectSeq([n \in DOMAIN ts |-> ts[n].id], LAMBDA id : id \notin inPrev)
  IN IF added # << >> \/ Len(kept) # Len(prev) THEN kept \o added ELSE prev

\* setTabOrder((prev) => [...prev, newTabId])
\* (OrderPrepended: the fault of putting the new id first)
OrderPrepended(prev, newTabId) == <<newTabId>> \o prev
OrderAfterOpen(prev, newTabId) == Append(prev, newTabId)

\* a render: the handlers of the next event close over the state rendered
\* here, and the tabOrder effect has run
Commit(ts, order) ==
  /\ rTabs' = ts
  /\ tabOrder' = SyncTabOrder(order, ts)

NoDrag == UNCHANGED <<draggingTabId, dragRaf, dragPending, dragLog>>

\* a render of updates that were queued outside an input event
Render ==
  /\ rTabs # tabs \/ tabOrder # SyncTabOrder(tabOrder, tabs)
  /\ Commit(tabs, tabOrder)
  /\ UNCHANGED <<loadState, tabs, ops, nextPane>>
  /\ NoDrag
  /\ UNCHANGED bridgeVars
  /\ UNCHANGED extVars

\* processVybBuffer: the load begins (the upload section is shown only
\* while loadState is not ready)
LoadStart ==
  /\ loadState \in {"idle", "error"}
  /\ loadState' = "loading"
  /\ tabs' = << >>
  /\ Commit(<< >>, tabOrder)
  /\ UNCHANGED <<ops, nextPane>>
  /\ NoDrag
  /\ UNCHANGED bridgeVars
  /\ UNCHANGED extVars

\* processVybBuffer: the load ends, with success or with a failure
LoadEnd(ok) ==
  /\ loadState = "loading"
  /\ loadState' = IF ok THEN "ready" ELSE "error"
  /\ UNCHANGED <<tabs, rTabs, tabOrder, ops, nextPane>>
  /\ NoDrag
  /\ UNCHANGED bridgeVars
  /\ UNCHANGED extVars

\* focusPane's update: prev.map(tab => tab.id === tabId ? {...tab, zIndex: maxZ + 1} : tab)
FocusUpdate(prev, tabId, maxZ) ==
  [n \in DOMAIN prev |->
     IF prev[n].id = tabId THEN [prev[n] EXCEPT !.zIndex = maxZ + 1] ELSE prev[n]]

\* focusPane(tabId), called from a handler of the last render: maxZ is read
\* from the rendered tabs, the update is applied to the latest tabs
focusPane(tabId) ==
  /\ tabs' = FocusUpdate(tabs, tabId, MathMaxZ(rTabs))
  /\ Commit(tabs', tabOrder)
  /\ UNCHANGED <<loadState, ops, nextPane>>
  /\ NoDrag
  /\ UNCHANGED bridgeVars
  /\ UNCHANGED extVars

\* a click on a tab of the tab bar
TabClick(tabId) ==
  /\ loadState = "ready"
  /\ tabId \in Ids(rTabs)
  /\ focusPane(tabId)

\* the first element of a set of indexes (Array.prototype.find returns the first match)
First(ns) == CHOOSE m \in ns : \A k \in ns : m <= k

\* tabs.find((t) => isTableTab(t) && t.tableName === tableName): the matching indexes
FindTableTab(ts, tableName) ==
  { n \in DOMAIN ts : ts[n].type = "table" /\ ts[n].tableName = tableName }

\* handleTableSelect(tableName) up to "await execQuery"
handleTableSelect(tableName) ==
  /\ loadState = "ready"
  /\ IF FindTableTab(rTabs, tableName) # {}
     THEN focusPane(rTabs[First(FindTableTab(rTabs, tableName))].id)
     ELSE /\ nextPane' = nextPane + 1
          /\ ops' = Append(ops, [tableName |-> tableName, newTabId |-> nextPane + 1,
                                 len |-> Len(rTabs), maxZ |-> MaxZOrZero(rTabs)])
          /\ UNCHANGED <<loadState, tabs, rTabs, tabOrder>>
          /\ NoDrag
          /\ UNCHANGED bridgeVars
          /\ UNCHANGED extVars

\* what the default query leaves in tableData: its result, or null when it failed
DefaultData(ok) == IF ok THEN "rows" ELSE "null"

\* try { tableData = await execQuery(...) } catch { console.error } and then
\* setTabs((prev) => [...prev, newTab]): the pane is appended whether or not
\* the query succeeded
\* (TabsAfterSelectUncaught: the fault of letting the failure end the handler)
TabsAfterSelectUncaught(prev, newTab, ok) == IF ok THEN Append(prev, newTab) ELSE prev
TabsAfterSelect(prev, newTab, ok) == Append(prev, newTab)

\* handleTableSelect after "await execQuery": the pane is built from the
\* tabs the call closed over and appended to the latest tabs and tabOrder
handleTableSelectResume(ok) ==
  /\ ops # << >>
  /\ LET op == Head(ops) IN
       /\ tabs' = TabsAfterSelect(tabs, TablePane(op.newTabId, op.tableName,
                                                 DefaultData(ok), op.len, op.maxZ), ok)
       /\ tabOrder' = OrderAfterOpen(tabOrder, op.newTabId)
  /\ ops' = Tail(ops)
  /\ UNCHANGED <<loadState, rTabs, nextPane>>
  /\ NoDrag
  /\ UNCHANGED bridgeVars
  /\ UNCHANGED extVars

\* tabs.find((t) => t.type === 'saved-queries'): the matching indexes
\* (FindSavedQueriesNone: the fault of never finding the open pane)
FindSavedQueriesNone(ts) == {}
FindSavedQueries(ts) == { n \in DOMAIN ts : ts[n].type = "saved-queries" }

\* openSavedQueriesPane(), from the button of the side bar
openSavedQueriesPane ==
  /\ loadState = "ready"
  /\ IF FindSavedQueries(rTabs) # {}
     THEN focusPane(rTabs[First(FindSavedQueries(rTabs))].id)
     ELSE /\ nextPane' = nextPane + 1
          /\ tabs' = Append(tabs, SavedPane(nextPane + 1, Len(rTabs), MaxZOrZero(rTabs)))
          /\ Commit(tabs', OrderAfterOpen(tabOrder, nextPane + 1))
          /\ UNCHANGED <<loadState, ops>>
          /\ NoDrag
          /\ UNCHANGED bridgeVars
          /\ UNCHANGED extVars

\* prev.filter((tab) => tab.id !== tabId)
\* (TabsAfterCloseFirst: the fault of removing the first pane, whatever its id)
TabsAfterCloseFirst(prev, tabId) == IF prev = << >> THEN prev ELSE Tail(prev)
TabsAfterClose(prev, tabId) == SelectSeq(prev, LAMBDA tab : tab.id # tabId)

\* prev.filter((id) => id !== tabId)
OrderAfterClose(prev, tabId) == SelectSeq(prev, LAMBDA id : id # tabId)

\* handleCloseTab(tabId), from the close button of a rendered tab or pane
handleCloseTab(tabId) ==
  /\ loadState = "ready"
  /\ tabId \in Ids(rTabs)
  /\ tabs' = TabsAfterClose(tabs, tabId)
  /\ Commit(tabs', OrderAfterClose(tabOrder, tabId))
  /\ UNCHANGED <<loadState, ops, nextPane>>
  /\ NoDrag
  /\ UNCHANGED bridgeVars
  /\ UNCHANGED extVars

\* prev.indexOf(id), counted from 0; -1 when absent
IndexOf(seq, id) ==
  IF \E n \in DOMAIN seq : seq[n] = id
  THEN (CHOOSE n \in DOMAIN seq : seq[n] = id /\ \A m \in DOMAIN seq : seq[m] = id => n <= m) - 1
  ELSE -1

\* next.splice(dropIndex, 0, dragId)
\* (SpliceAtEnd: the fault of pushing the id instead of inserting it)
SpliceAtEnd(seq, index, id) == Append(seq, id)
Splice(seq, index, id) ==
  LET at == IF index > Len(seq) THEN Len(seq) ELSE index
  IN SubSeq(seq, 1, at) \o <<id>> \o SubSeq(seq, at + 1, Len(seq))

\* reorderTabBar's update of tabOrder
ReorderUpdate(prev, dragId, dropIndex) ==
  LET idx == IndexOf(prev, dragId) IN
    IF idx = -1 \/ idx = dropIndex THEN prev
    ELSE Splice(SelectSeq(prev, LAMBDA id : id # dragId), dropIndex, dragId)

\* a tab of the tab bar dropped on another one: reorderTabBar(dragId, toIndex)
reorderTabBar(dragId, targetId) ==
  /\ loadState = "ready"
  /\ dragId \in Ids(rTabs) /\ targetId \in Ids(rTabs) /\ dragId # targetId
  /\ Commit(tabs, ReorderUpdate(tabOrder, dragId, IndexOf(tabOrder, targetId)))
  /\ UNCHANGED <<loadState, tabs, ops, nextPane>>
  /\ NoDrag
  /\ UNCHANGED bridgeVars
  /\ UNCHANGED extVars

\* ------------------------------------------------------- the drag gesture
\* onPointerMove: dragPendingRef.current = { tabId, x, y }
\* (PendingKeepsFirst: the fault of keeping a position that is already buffered)
PendingKeepsFirst(old, new) == IF old.tabId # 0 THEN old ELSE new
PendingAfterMove(old, new) == new

\* flushDragPosition's update: the pane is moved to the clamped position and
\* raised above the greatest z-order of prev
\* (MoveUnclamped: the fault of storing the coordinates as reported)
MoveUnclamped(prev, p) ==
  [n \in DOMAIN prev |->
     IF prev[n].id = p.tabId
     THEN [prev[n] EXCEPT !.x = p.x, !.y = p.y, !.zIndex = MathMaxZ(prev) + 1]
     ELSE prev[n]]
\* (MoveKeepsZ: the fault of moving the pane without raising it)
MoveKeepsZ(prev, p) ==
  [n \in DOMAIN prev |->
     IF prev[n].id = p.tabId
     THEN [prev[n] EXCEPT !.x = Max2(0, p.x), !.y = Max2(0, p.y)]
     ELSE prev[n]]
MoveUpdate(prev, p) ==
  [n \in DOMAIN prev |->
     IF prev[n].id = p.tabId
     THEN [prev[n] EXCEPT !.x = Max2(0, p.x), !.y = Max2(0, p.y),
                          !.zIndex = MathMaxZ(prev) + 1]
     ELSE prev[n]]

\* flushDragPosition once dragRafRef is null: the tabs it leaves
Flushed(prev, p) == IF p.tabId = 0 THEN prev ELSE MoveUpdate(prev, p)

\* the log after a flush: the buffered moves are covered by it
LogFlushed(log, p) ==
  IF p.tabId = 0 THEN log
  ELSE [log EXCEPT !.moves = << >>, !.flushed = log.moves]

\* handlePanePointerDown(e, tabId) on a rendered pane, with the main button
handlePanePointerDown(tabId) ==
  /\ loadState = "ready"
  /\ draggingTabId = 0
  /\ tabId \in Ids(rTabs)
  /\ draggingTabId' = tabId
  /\ dragLog' = [dragLog EXCEPT !.moves = << >>, !.flushed = << >>]
  /\ Commit(tabs, tabOrder)
  /\ UNCHANGED <<loadState, tabs, ops, nextPane, dragRaf, dragPending>>
  /\ UNCHANGED bridgeVars
  /\ UNCHANGED extVars

\* onPointerMove: the position is buffered and a frame is requested if none is
onPointerMove(x, y) ==
  /\ draggingTabId # 0
  /\ dragPending' = PendingAfterMove(dragPending, [tabId |-> draggingTabId, x |-> x, y |-> y])
  /\ dragRaf' = TRUE
  /\ dragLog' = [dragLog EXCEPT !.moves = Append(@, <<x, y>>), !.total = @ + 1]
  /\ UNCHANGED <<loadState, tabs, rTabs, tabOrder, ops, nextPane, draggingTabId>>
  /\ UNCHANGED bridgeVars
  /\ UNCHANGED extVars

\* the requestAnimationFrame callback: dragRafRef.current = null; flushDragPosition()
AnimationFrame ==
  /\ dragRaf
  /\ dragRaf' = FALSE
  /\ tabs' = Flushed(tabs, dragPending)
  /\ dragPending' = NoPending
  /\ dragLog' = LogFlushed(dragLog, dragPending)
  /\ UNCHANGED <<loadState, rTabs, tabOrder, ops, nextPane, draggingTabId>>
  /\ UNCHANGED bridgeVars
  /\ UNCHANGED extVars

\* (onPointerUpWithoutFlush: the fault of ending the gesture without flushing)
onPointerUpWithoutFlush ==
  /\ draggingTabId # 0
  /\ dragRaf' = FALSE
  /\ dragPending' = NoPending
  /\ dragLog' = LogFlushed(dragLog, dragPending)
  /\ draggingTabId' = 0
  /\ Commit(tabs, tabOrder)
  /\ UNCHANGED <<loadState, tabs, ops, nextPane>>
  /\ UNCHANGED bridgeVars
  /\ UNCHANGED extVars
\* onPointerUp (pointerup or pointercancel): the frame is cancelled, the
\* buffered position is flushed and the gesture's state is cleared
onPointerUp ==
  /\ draggingTabId # 0
  /\ dragRaf' = FALSE
  /\ tabs' = Flushed(tabs, dragPending)
  /\ dragPending' = NoPending
  /\ dragLog' = LogFlushed(dragLog, dragPending)
  /\ draggingTabId' = 0
  /\ Commit(tabs', tabOrder)
  /\ UNCHANGED <<loadState, ops, nextPane>>
  /\ UNCHANGED bridgeVars
  /\ UNCHANGED extVars

\* the bounds of a run: pane ids left, and a rendered z-order below the cap
IdsLeft(max) == nextPane < max
ZBelow(max) == MaxZOrZero(rTabs) < max

\* the workspace without the drag gesture
NextWs ==
  \/ LoadStart
  \/ \E ok \in BOOLEAN : LoadEnd(ok)
  \/ Render
  \/ IdsLeft(MaxPanes) /\ ZBelow(MaxZ) /\ \E name \in TableNames : handleTableSelect(name)
  \/ \E ok \in BOOLEAN : handleTableSelectResume(ok)
  \/ IdsLeft(MaxPanes) /\ ZBelow(MaxZ) /\ openSavedQueriesPane
  \/ ZBelow(MaxZ) /\ \E id \in 1..MaxPanes : TabClick(id)
  \/ \E id \in 1..MaxPanes : handleCloseTab(id)
  \/ \E a, b \in 1..MaxPanes : reorderTabBar(a, b)

SpecWs == Init /\ [][NextWs]_vars

\* opening, closing and reordering with more panes; a pane is focused by
\* selecting its table or the saved queries again
NextTabs ==
  \/ LoadStart
  \/ LoadEnd(TRUE)
  \/ Render
  \/ IdsLeft(MaxTabPanes) /\ ZBelow(MaxTabPanes)
       /\ \E name \in TableNames : handleTableSelect(name)
  \/ handleTableSelectResume(TRUE)
  \/ IdsLeft(MaxTabPanes) /\ ZBelow(MaxTabPanes) /\ openSavedQueriesPane
  \/ \E id \in 1..MaxTabPanes : handleCloseTab(id)
  \/ \E a, b \in 1..MaxTabPanes : reorderTabBar(a, b)

SpecTabs == Init /\ [][NextTabs]_vars

\* table panes and the drag gesture of a pane
NextDrag ==
  \/ LoadStart
  \/ LoadEnd(TRUE)
  \/ Render
  \/ IdsLeft(MaxDragPanes) /\ ZBelow(MaxDragPanes)
       /\ \E name \in TableNames : handleTableSelect(name)
  \/ handleTableSelectResume(TRUE)
  \/ \E id \in 1..MaxDragPanes : handleCloseTab(id)
  \/ \E id \in 1..MaxDragPanes : handlePanePointerDown(id)
  \/ dragLog.total < MaxMoves /\ \E p \in Points : onPointerMove(p[1], p[2])
  \/ AnimationFrame
  \/ onPointerUp

SpecDrag == Init /\ [][NextDrag]_vars

\* ======================================================================
\* Claims about the panes and the tab order
\* ======================================================================

\* C11: in every reachable state at most one table pane exists per table
\* name, also when a table is selected again while the default query of an
\* earlier selection of it is still awaited.
C11_OneTablePanePerName ==
  \A m, n \in DOMAIN tabs :
    (tabs[m].type = "table" /\ tabs[n].type = "table"
       /\ tabs[m].tableName = tabs[n].tableName) => m = n

\* C12: in every reachable state at most one saved-queries pane exists;
\* opening the saved queries while their pane is open focuses that pane.
C12_OneSavedQueriesPane ==
  \A m, n \in DOMAIN tabs :
    (tabs[m].type = "saved-queries" /\ tabs[n].type = "saved-queries") => m = n

\* the saved queries were opened a second time: the only pane ever created is
\* their pane and it has been raised
C12_Witness ==
  /\ nextPane = 1
  /\ Len(tabs) = 1
  /\ tabs[1].type = "saved-queries"
  /\ tabs[1].zIndex > 1

\* every queued update of tabs is rendered; the tabOrder effect ran with
\* that render
Synced == rTabs = tabs

OrderSet(order) == { order[n] : n \in DOMAIN order }

\* C13: once the tab-order synchronisation has run, tabOrder holds each live
\* pane id exactly once and no other id, and the ids of the panes are
\* pairwise distinct.
C13_TabOrderIsLiveIds ==
  /\ \A m, n \in DOMAIN tabs : tabs[m].id = tabs[n].id => m = n
  /\ Synced =>
       /\ OrderSet(tabOrder) = Ids(tabs)
       /\ \A m, n \in DOMAIN tabOrder : tabOrder[m] = tabOrder[n] => m = n

\* a pane was closed, two are live and their tabs were dragged into another order
C13_Witness ==
  /\ Synced
  /\ nextPane = 3
  /\ Len(tabs) = 2
  /\ tabOrder[1] = tabs[2].id

\* a comes before b in the order
Before(order, a, b) ==
  \E m, n \in DOMAIN order : m < n /\ order[m] = a /\ order[n] = b

\* C14: a step that opens or closes a pane (the ids in tabOrder change) adds
\* one id at the end or deletes one id, and any two ids that are in tabOrder
\* before and after it keep their relative order.
C14_OpenCloseKeepOrder ==
  [][ OrderSet(tabOrder') # OrderSet(tabOrder) =>
        LET old == OrderSet(tabOrder)
            new == OrderSet(tabOrder')
        IN /\ Cardinality((old \ new) \cup (new \ old)) = 1
           /\ \A a, b \in old \cap new :
                Before(tabOrder, a, b) <=> Before(tabOrder', a, b)
           /\ \A a \in new \ old : tabOrder'[Len(tabOrder')] = a ]_vars

\* the third pane was inserted behind two tabs that had been reordered, and
\* is not rendered yet
C14_Witness ==
  /\ tabOrder = <<2, 1, 3>>
  /\ 3 \notin Ids(rTabs)

\* the pane tabId is in front of every other pane of ts
StrictTop(ts, tabId) ==
  \A n, m \in DOMAIN ts :
    (ts[n].id = tabId /\ ts[m].id # tabId) => ts[m].zIndex < ts[n].zIndex

\* C15: after a focus of a live pane, its z-order is strictly greater than
\* that of every other pane, whatever updates were applied to the panes since
\* the state the handler read.
C15_FocusedPaneOnTop ==
  [][ \A id \in 1..MaxPanes :
        (TabClick(id) /\ id \in Ids(tabs)) => StrictTop(tabs', id) ]_vars

\* C16: when a selected table's pane is inserted, its z-order is strictly
\* greater than that of every other pane then in the workspace.
C16_NewPaneOnTop ==
  [][ \A ok \in BOOLEAN :
        handleTableSelectResume(ok) => StrictTop(tabs', Head(ops).newTabId) ]_vars

\* C17: when the default query of a selected table fails, the table's pane
\* is still created, with no default-view data, no query result and no
\* error, its id is appended to tabOrder and the workspace stays ready.
C17_FailedDefaultQueryOpensPane ==
  [][ handleTableSelectResume(FALSE) =>
        /\ \E n \in DOMAIN tabs' :
             /\ tabs'[n].id = Head(ops).newTabId
             /\ tabs'[n].type = "table"
             /\ tabs'[n].tableName = Head(ops).tableName
             /\ tabs'[n].tableData = "null"
             /\ tabs'[n].queryResult = "null"
             /\ tabs'[n].error = "null"
        /\ tabOrder'[Len(tabOrder')] = Head(ops).newTabId
        /\ loadState' = "ready" ]_vars

\* a pane whose default query failed is open next to one whose query succeeded
C17_Witness ==
  /\ loadState = "ready"
  /\ \E n \in DOMAIN tabs : tabs[n].type = "table" /\ tabs[n].tableData = "null"
  /\ \E n \in DOMAIN tabs : tabs[n].type = "table" /\ tabs[n].tableData = "rows"

\* ======================================================================
\* Claims about the drag gesture
\* ======================================================================

\* Math.max(0, v)
Clamped(v) == IF v < 0 THEN 0 ELSE v

\* a flush that applies a buffered position
AppliedMove == (AnimationFrame \/ onPointerUp) /\ dragPending.tabId # 0

\* C18: an applied move puts the pane at (max(0, x), max(0, y)), and every
\* pane of every reachable state has x >= 0 and y >= 0.
C18_MoveClampsToZero ==
  [][ /\ \A n \in DOMAIN tabs' : tabs'[n].x >= 0 /\ tabs'[n].y >= 0
      /\ AppliedMove =>
           \A n \in DOMAIN tabs' :
             tabs'[n].id = dragPending.tabId =>
               /\ tabs'[n].x = Clamped(dragPending.x)
               /\ tabs'[n].y = Clamped(dragPending.y) ]_vars

\* a pane was moved to (-5, -5) and stands at (0, 0)
C18_Witness ==
  \E n \in DOMAIN tabs : tabs[n].x = 0 /\ tabs[n].y = 0

\* C19: an applied move of a live pane brings it to the front: afterwards its
\* z-order is strictly greater than that of every other pane.
C19_MovedPaneOnTop ==
  [][ AppliedMove => StrictTop(tabs', dragPending.tabId) ]_vars

\* the first of two panes is being dragged, a position was applied to it and
\* it stands in front of the second pane, which was opened above it
C19_Witness ==
  /\ Len(tabs) = 2
  /\ draggingTabId = tabs[1].id
  /\ dragLog.flushed # << >>
  /\ tabs[2].zIndex >= 2
  /\ StrictTop(tabs, tabs[1].id)

\* the position of the pane tabId, if it is live
Position(ts, tabId) ==
  { <<ts[n].x, ts[n].y>> : n \in { m \in DOMAIN ts : ts[m].id = tabId } }

\* C20: during a drag gesture a pointer-move does not update the panes; the
\* dragged pane is repositioned only by the frame callback or by the end of
\* the gesture, each at most once for the moves buffered; the position
\* applied is that of the latest pointer-move, and nothing stays buffered.
C20_OneUpdatePerFrame ==
  [][ /\ (\E p \in Points : onPointerMove(p[1], p[2])) => tabs' = tabs
      /\ ( /\ draggingTabId # 0
           /\ draggingTabId \in Ids(tabs')
           /\ Position(tabs', draggingTabId) # Position(tabs, draggingTabId) )
         => AppliedMove
      /\ AppliedMove =>
           /\ dragLog.moves # << >>
           /\ \A n \in DOMAIN tabs' :
                tabs'[n].id = dragPending.tabId =>
                  /\ tabs'[n].x = Clamped(dragLog.moves[Len(dragLog.moves)][1])
                  /\ tabs'[n].y = Clamped(dragLog.moves[Len(dragLog.moves)][2])
           /\ dragPending' = NoPending
           /\ ~dragRaf' ]_vars

\* one flush covered two pointer-moves to different positions, and the pane
\* stands at the later one
C20_Witness ==
  /\ Len(dragLog.flushed) >= 2
  /\ dragLog.flushed[1] # dragLog.flushed[2]
  /\ \E n \in DOMAIN tabs :
       /\ tabs[n].id = draggingTabId
       /\ tabs[n].x = Clamped(dragLog.flushed[Len(dragLog.flushed)][1])
       /\ tabs[n].y = Clamped(dragLog.flushed[Len(dragLog.flushed)][2])
       /\ <<tabs[n].x, tabs[n].y>> # <<Clamped(dragLog.flushed[1][1]), Clamped(dragLog.flushed[1][2])>>

\* ======================================================================
\* The size of a pane (src/src/App.tsx, updatePaneSize)
\* ======================================================================
MIN_PANE_WIDTH == 320
MIN_PANE_HEIGHT == 420

\* the sizes the ResizeObserver reports, rounded at the call
Widths == {300, 320, 600}
Heights == {400, 560}

\* const w = Math.max(320, Math.round(width))
\* (PaneWidthUnclamped: the fault of storing the width as reported)
PaneWidthUnclamped(width) == width
PaneWidth(width) == Max2(MIN_PANE_WIDTH, width)

\* const h = Math.max(420, Math.round(height))
PaneHeight(height) == Max2(MIN_PANE_HEIGHT, height)

\* prev.map((tab) => tab.id === tabId ? { ...tab, width: w, height: h } : tab)
Resized(prev, tabId, w, h) ==
  [n \in DOMAIN prev |->
     IF prev[n].id = tabId THEN [prev[n] EXCEPT !.width = w, !.height = h] ELSE prev[n]]

\* prev.some((t) => t.id === tabId && (t.width !== w || t.height !== h))
\* (SizeChangedAlways: the fault of returning the mapped array in every case)
SizeChangedAlways(prev, tabId, w, h) == TRUE
SizeChanged(prev, tabId, w, h) ==
  \E n \in DOMAIN prev : prev[n].id = tabId /\ (prev[n].width # w \/ prev[n].height # h)

\* updatePaneSize(tabId, width, height), called by the ResizeObserver of a
\* pane.  The observers are set up again only when tabs.length changes, so
\* the observer of a closed pane can outlive it: tabId is any id generated.
updatePaneSize(tabId, width, height) ==
  LET w == PaneWidth(width)
      h == PaneHeight(height)
      changed == SizeChanged(tabs, tabId, w, h)
  IN /\ loadState = "ready"
     /\ tabId \in 1..nextPane
     /\ tabs' = IF changed THEN Resized(tabs, tabId, w, h) ELSE tabs
     /\ sizeLog' = IF changed THEN "next" ELSE "prev"
     /\ UNCHANGED <<loadState, rTabs, tabOrder, ops, nextPane>>
     /\ NoDrag
     /\ UNCHANGED <<runs, lastRun, loads, store, saves, now,
            savedQueries, persisted, nextSq, tableInfo>>
     /\ UNCHANGED bridgeVars

\* table panes that are opened, resized and closed
NextSize ==
  \/ LoadStart
  \/ LoadEnd(TRUE)
  \/ Render
  \/ IdsLeft(MaxSizePanes) /\ ZBelow(MaxSizePanes)
       /\ \E name \in TableNames : handleTableSelect(name)
  \/ handleTableSelectResume(TRUE)
  \/ \E id \in 1..MaxSizePanes : handleCloseTab(id)
  \/ \E id \in 1..MaxSizePanes, width \in Widths, height \in Heights :
       updatePaneSize(id, width, height)

SpecSize == Init /\ [][NextSize]_vars

\* C21: a resize of a live pane sets its size to (max(320, width),
\* max(420, height)): a size below the floor is clamped to the floor, a size
\* at or above it is stored as given.
C21_ResizeClampsToFloor ==
  [][ \A id \in 1..MaxSizePanes, width \in Widths, height \in Heights :
        updatePaneSize(id, width, height) =>
          \A n \in DOMAIN tabs' :
            tabs'[n].id = id =>
              /\ tabs'[n].width = (IF width < 320 THEN 320 ELSE width)
              /\ tabs'[n].height = (IF height < 420 THEN 420 ELSE height) ]_vars

\* a pane was resized to 300 x 400 and stands at the floor
C21_Witness ==
  /\ sizeLog = "next"
  /\ \E n \in DOMAIN tabs : tabs[n].width = 320 /\ tabs[n].height = 420

\* C22: a resize whose clamped size is the pane's current size, and a resize
\* of an id that is not a live pane, make no update: the updater returns the
\* collection it was given.
C22_ResizeToSameSizeIsNoUpdate ==
  [][ \A id \in 1..MaxSizePanes, width \in Widths, height \in Heights :
        ( /\ updatePaneSize(id, width, height)
          /\ \A n \in DOMAIN tabs :
               tabs[n].id = id =>
                 /\ tabs[n].width = PaneWidth(width)
                 /\ tabs[n].height = PaneHeight(height) )
        => (tabs' = tabs /\ sizeLog' = "prev") ]_vars

\* a pane was resized to the width 600, and the last resize made no update
C22_Witness ==
  /\ sizeLog = "prev"
  /\ \E n \in DOMAIN tabs : tabs[n].width = 600

\* ======================================================================
\* The query of a table pane (src/src/App.tsx, handleQueryChange and
\* handleExecuteQuery)
\* ======================================================================
\* what is typed into the query box of a pane
QueryTexts == {"typed"}

\* how an execQuery ends: resolved, rejected with the Error of an execError
\* or error response, or rejected with the error event of the worker
Outcomes == {"ok", "error", "event"}

FallbackMessage == "Failed to execute SQL query"
WorkerEventMessage == "Uncaught error in the worker"

\* what execQuery(query) resolves with
ResultOf(query) == IF query = "default" THEN "rows of default" ELSE "rows of typed"

\* err instanceof Error ? err.message : 'Failed to execute SQL query'
\* (ErrorTextOfAny: the fault of reading .message of whatever was thrown)
ErrorTextOfAny(outcome) == IF outcome = "error" THEN EngineMessage ELSE WorkerEventMessage
ErrorText(outcome) == IF outcome = "error" THEN EngineMessage ELSE FallbackMessage

\* tabs.map((t) => t.id === tabId && isTableTab(t) ? { ...t, query, error: null } : t)
QueryChanged(ts, tabId, query) ==
  [n \in DOMAIN ts |->
     IF ts[n].id = tabId /\ ts[n].type = "table"
     THEN [ts[n] EXCEPT !.query = query, !.error = "null"]
     ELSE ts[n]]

\* handleQueryChange(tabId, query), from the query box of a rendered table
\* pane: the new collection is built from the tabs of the render
handleQueryChange(tabId, query) ==
  /\ loadState = "ready"
  /\ \E n \in DOMAIN rTabs : rTabs[n].id = tabId /\ rTabs[n].type = "table"
  /\ tabs' = QueryChanged(rTabs, tabId, query)
  /\ Commit(tabs', tabOrder)
  /\ UNCHANGED <<loadState, ops, nextPane>>
  /\ NoDrag
  /\ UNCHANGED bridgeVars
  /\ UNCHANGED extVars

\* prev.map((t) => t.id === tabId ? { ...t, error: null, queryResult: null } : t)
RunCleared(prev, tabId) ==
  [n \in DOMAIN prev |->
     IF prev[n].id = tabId
     THEN [prev[n] EXCEPT !.error = "null", !.queryResult = "null"]
     ELSE prev[n]]

\* handleExecuteQuery(tabId) up to "await execQuery(tab.query)"
handleExecuteQuery(tabId) ==
  /\ loadState = "ready"
  /\ \E n \in DOMAIN rTabs :
       /\ rTabs[n].id = tabId /\ rTabs[n].type = "table"
       /\ runs' = Append(runs, [tabId |-> tabId, tableName |-> rTabs[n].tableName,
                                query |-> rTabs[n].query])
  /\ tabs' = RunCleared(tabs, tabId)
  /\ Commit(tabs', tabOrder)
  /\ UNCHANGED <<loadState, ops, nextPane>>
  /\ NoDrag
  /\ UNCHANGED <<lastRun, sizeLog, loads, store, saves, now,
            savedQueries, persisted, nextSq, tableInfo>>
  /\ UNCHANGED bridgeVars

\* t.id === tabId, the pane a response is applied to
\* (RunTargetByTable: the fault of addressing the pane by its table)
RunTargetByTable(t, run) == t.type = "table" /\ t.tableName = run.tableName
RunTarget(t, run) == t.id = run.tabId

\* prev.map((t) => t.id === tabId ? { ...t, queryResult: res ?? null, error: null } : t)
\* (RunSucceededKeepsError: the fault of storing the result beside the error)
RunSucceededKeepsError(prev, run) ==
  [n \in DOMAIN prev |->
     IF RunTarget(prev[n], run)
     THEN [prev[n] EXCEPT !.queryResult = ResultOf(run.query)]
     ELSE prev[n]]
RunSucceeded(prev, run) ==
  [n \in DOMAIN prev |->
     IF RunTarget(prev[n], run)
     THEN [prev[n] EXCEPT !.queryResult = ResultOf(run.query), !.error = "null"]
     ELSE prev[n]]

\* prev.map((t) => t.id === tabId ? { ...t, error: ..., queryResult: null } : t)
\* (RunFailedDropsData: the fault of resetting the pane's default view too)
RunFailedDropsData(prev, run, outcome) ==
  [n \in DOMAIN prev |->
     IF RunTarget(prev[n], run)
     THEN [prev[n] EXCEPT !.error = ErrorText(outcome), !.queryResult = "null",
                          !.tableData = "null"]
     ELSE prev[n]]
RunFailed(prev, run, outcome) ==
  [n \in DOMAIN prev |->
     IF RunTarget(prev[n], run)
     THEN [prev[n] EXCEPT !.error = ErrorText(outcome), !.queryResult = "null"]
     ELSE prev[n]]

\* handleExecuteQuery after "await execQuery": the response is applied to
\* the latest tabs
handleExecuteQueryResume(outcome) ==
  /\ runs # << >>
  /\ LET run == Head(runs) IN
       /\ tabs' = IF outcome = "ok" THEN RunSucceeded(tabs, run)
                  ELSE RunFailed(tabs, run, outcome)
       /\ lastRun' = [tableName |-> run.tableName, live |-> run.tabId \in Ids(tabs)]
  /\ runs' = Tail(runs)
  /\ UNCHANGED <<loadState, rTabs, tabOrder, ops, nextPane>>
  /\ NoDrag
  /\ UNCHANGED <<sizeLog, loads, store, saves, now,
            savedQueries, persisted, nextSq, tableInfo>>
  /\ UNCHANGED bridgeVars

\* table panes whose query is run
NextQuery ==
  \/ LoadStart
  \/ LoadEnd(TRUE)
  \/ Render
  \/ IdsLeft(MaxQueryPanes) /\ ZBelow(MaxQueryPanes)
       /\ \E name \in TableNames : handleTableSelect(name)
  \/ handleTableSelectResume(TRUE)
  \/ \E id \in 1..MaxQueryPanes : handleCloseTab(id)
  \/ Len(runs) < MaxRuns /\ \E id \in 1..MaxQueryPanes : handleExecuteQuery(id)
  \/ \E outcome \in Outcomes : handleExecuteQueryResume(outcome)

SpecQuery == Init /\ [][NextQuery]_vars

\* table panes whose query is edited and run, with several runs of a pane
\* awaiting their response
MaxRunPanes == 1
MaxInFlight == 2

NextRuns ==
  \/ LoadStart
  \/ LoadEnd(TRUE)
  \/ Render
  \/ IdsLeft(MaxRunPanes) /\ ZBelow(MaxRunPanes)
       /\ \E name \in TableNames : handleTableSelect(name)
  \/ handleTableSelectResume(TRUE)
  \/ \E id \in 1..MaxRunPanes, query \in QueryTexts : handleQueryChange(id, query)
  \/ Len(runs) < MaxInFlight /\ \E id \in 1..MaxRunPanes : handleExecuteQuery(id)
  \/ \E outcome \in Outcomes : handleExecuteQueryResume(outcome)

SpecRuns == Init /\ [][NextRuns]_vars

\* table panes whose query is edited
NextEdit ==
  \/ LoadStart
  \/ LoadEnd(TRUE)
  \/ Render
  \/ IdsLeft(MaxEditPanes) /\ ZBelow(MaxEditPanes)
       /\ \E name \in TableNames : handleTableSelect(name)
  \/ handleTableSelectResume(TRUE)
  \/ \E id \in 1..MaxEditPanes : handleCloseTab(id)
  \/ ZBelow(MaxEditPanes) /\ \E id \in 1..MaxEditPanes : TabClick(id)
  \/ \E id \in 1..MaxEditPanes, query \in QueryTexts : handleQueryChange(id, query)

SpecEdit == Init /\ [][NextEdit]_vars

\* ------------------------------------------------------ the recent files
\* An entry of the object store is its file name and its openedAt: the key
\* `${openedAt}-${filename}` is made of the two, and the data is left out.
\* File names are numbered in the order of their strings.
MAX_RECENT == 10

\* saveRecentDb calls made, and the last value of the clock
MaxRecords == 12
MaxNow == 1

\* the callers that can have a saveRecentDb call in progress at a time: loads
\* that overlap, or two pages of the application on the same store
Pages == {"p", "q"}

appVars == <<loadState, tabs, rTabs, tabOrder, ops, nextPane,
             draggingTabId, dragRaf, dragPending, dragLog,
             runs, lastRun, sizeLog,
             savedQueries, persisted, nextSq, tableInfo>>

RecentEntry(filename, openedAt) == [filename |-> filename, openedAt |-> openedAt]

\* a saveRecentDb call: the step it awaits, and what it holds in its locals
\* (ids is sameFilenameIds before the put, toRemove before the delete)
SaveCall(stage, filename, openedAt, ids) ==
  [stage |-> stage, filename |-> filename, openedAt |-> openedAt, ids |-> ids]

SaveDone == SaveCall("done", 0, 0, {})

InProgress(calls) == { i \in DOMAIN calls : calls[i].stage # "done" }

\* saveRecentDb(filename, data) is called: it awaits openDb and getAll
SaveCalled(calls, filename) == Append(calls, SaveCall("getAll", filename, 0, {}))

saveRecentDb(filename) ==
  /\ saves' = SaveCalled(saves, filename)
  /\ UNCHANGED <<store, now, loads>>
  /\ UNCHANGED appVars
  /\ UNCHANGED bridgeVars

\* all.filter((e) => e.filename === filename)
SameFilename(all, filename) == { e \in all : e.filename = filename }

\* saveRecentDb after getAll: Date.now() is read (the clock has moved on by
\* tick), the entry and sameFilenameIds are computed from the entries read
saveRecentDbGetAll(i, tick) ==
  /\ i \in DOMAIN saves
  /\ saves[i].stage = "getAll"
  /\ now' = now + tick
  /\ saves' = [saves EXCEPT ![i] = SaveCall("put", @.filename, now',
                                           SameFilename(store, @.filename))]
  /\ UNCHANGED <<store, loads>>
  /\ UNCHANGED appVars
  /\ UNCHANGED bridgeVars

\* the readwrite transaction of saveRecentDb: the entries of the same file
\* name are deleted and the new entry is put
StoreAfterPut(all, call) ==
  (all \ call.ids) \cup {RecentEntry(call.filename, call.openedAt)}

\* the transaction completes and trimRecent is called
saveRecentDbPut(i) ==
  /\ i \in DOMAIN saves
  /\ saves[i].stage = "put"
  /\ store' = StoreAfterPut(store, saves[i])
  /\ saves' = [saves EXCEPT ![i] = SaveCall("trim", @.filename, @.openedAt, {})]
  /\ UNCHANGED <<now, loads>>
  /\ UNCHANGED appVars
  /\ UNCHANGED bridgeVars

\* all.sort((a, b) => b.openedAt - a.openedAt): x is placed before e.  The
\* sort is stable and getAll returns the entries in the order of their keys,
\* which for equal openedAt is the order of the file names.
SortedBefore(x, e) ==
  \/ x.openedAt > e.openedAt
  \/ x.openedAt = e.openedAt /\ x.filename < e.filename

\* sorted.slice(MAX_RECENT)
ToRemove(all) ==
  { e \in all : Cardinality({ x \in all : SortedBefore(x, e) }) >= MAX_RECENT }

\* trimRecent after getAll: it returns when there are at most MAX_RECENT
\* entries, and else awaits the transaction that deletes toRemove
trimRecentGetAll(i) ==
  /\ i \in DOMAIN saves
  /\ saves[i].stage = "trim"
  /\ saves' = [saves EXCEPT ![i] =
                 IF Cardinality(store) <= MAX_RECENT
                 THEN SaveDone
                 ELSE SaveCall("delete", @.filename, @.openedAt, ToRemove(store))]
  /\ UNCHANGED <<store, now, loads>>
  /\ UNCHANGED appVars
  /\ UNCHANGED bridgeVars

\* the readwrite transaction of trimRecent; saveRecentDb resolves
trimRecentDelete(i) ==
  /\ i \in DOMAIN saves
  /\ saves[i].stage = "delete"
  /\ store' = store \ saves[i].ids
  /\ saves' = [saves EXCEPT ![i] = SaveDone]
  /\ UNCHANGED <<now, loads>>
  /\ UNCHANGED appVars
  /\ UNCHANGED bridgeVars

Ticks == {0, 1}

\* files recorded one after another or while another is being recorded,
\* each under a file name that was not recorded before
NextRecent ==
  \/ Len(saves) < MaxRecords /\ Cardinality(InProgress(saves)) < Cardinality(Pages)
       /\ saveRecentDb(Len(saves) + 1)
  \/ \E i \in 1..MaxRecords, tick \in Ticks :
       now + tick <= MaxNow /\ saveRecentDbGetAll(i, tick)
  \/ \E i \in 1..MaxRecords : saveRecentDbPut(i)
  \/ \E i \in 1..MaxRecords : trimRecentGetAll(i)
  \/ \E i \in 1..MaxRecords : trimRecentDelete(i)

SpecRecent == Init /\ [][NextRecent]_vars

\* files recorded again: the names a call is made with, and the calls made
FileNames == {1, 2}
MaxRerecords == 3

NextRerecord ==
  \/ Len(saves) < MaxRerecords /\ Cardinality(InProgress(saves)) < Cardinality(Pages)
       /\ \E filename \in FileNames : saveRecentDb(filename)
  \/ \E i \in 1..MaxRerecords, tick \in Ticks :
       now + tick <= MaxNow /\ saveRecentDbGetAll(i, tick)
  \/ \E i \in 1..MaxRerecords : saveRecentDbPut(i)
  \/ \E i \in 1..MaxRerecords : trimRecentGetAll(i)

SpecRerecord == Init /\ [][NextRerecord]_vars

\* ------------------------------------------------- the load of an archive
\* files given to the drop zone, and panes opened in the workspace
MaxLoads == 2
MaxLoadPanes == 1

paneVars == <<ops, nextPane, draggingTabId, dragRaf, dragPending, dragLog,
              runs, lastRun, sizeLog,
              savedQueries, persisted, nextSq, tableInfo>>

\* a handleFileUpload call: the step it awaits, and the name of its file
LoadCall(stage, filename) == [stage |-> stage, filename |-> filename]

\* the awaits of processVybBuffer, in their order: extractVypFromZip, openDb,
\* getTableNames, Promise.all of getTableInfo
Awaited == {"extract", "open", "names", "infos"}
NextStage(stage) ==
  CASE stage = "extract" -> "open"
    [] stage = "open" -> "names"
    [] stage = "names" -> "infos"

\* handleDrop: a .vyb or .zip file is dropped on the drop zone, which is shown
\* while loadState is not ready; handleFileUpload awaits loadFileAsBuffer
handleDrop(filename) ==
  /\ loadState # "ready"
  /\ loads' = Append(loads, LoadCall("read", filename))
  /\ UNCHANGED <<loadState, tabs, rTabs, tabOrder, store, saves, now,
            savedQueries, persisted, nextSq, tableInfo>>
  /\ UNCHANGED paneVars
  /\ UNCHANGED bridgeVars

\* handleFileUpload after "await loadFileAsBuffer": processVybBuffer is called
\* and runs up to "await extractVypFromZip", or the catch sets the error state
handleFileUploadResume(i, ok) ==
  /\ i \in DOMAIN loads
  /\ loads[i].stage = "read"
  /\ IF ok
     THEN /\ loadState' = "loading"
          /\ tabs' = << >>
          /\ loads' = [loads EXCEPT ![i].stage = "extract"]
     ELSE /\ loadState' = "error"
          /\ loads' = [loads EXCEPT ![i].stage = "failed"]
          /\ UNCHANGED tabs
  /\ UNCHANGED <<rTabs, tabOrder, store, saves, now,
            savedQueries, persisted, nextSq, tableInfo>>
  /\ UNCHANGED paneVars
  /\ UNCHANGED bridgeVars

\* processVybBuffer: an await other than the last one resolves
processVybBufferStep(i) ==
  /\ i \in DOMAIN loads
  /\ loads[i].stage \in Awaited \ {"infos"}
  /\ loads' = [loads EXCEPT ![i].stage = NextStage(@)]
  /\ UNCHANGED <<loadState, tabs, rTabs, tabOrder, store, saves, now,
            savedQueries, persisted, nextSq, tableInfo>>
  /\ UNCHANGED paneVars
  /\ UNCHANGED bridgeVars

\* processVybBuffer: the last await resolves; the load state is ready and
\* saveRecentDb is called
processVybBufferReady(i) ==
  /\ i \in DOMAIN loads
  /\ loads[i].stage = "infos"
  /\ loadState' = "ready"
  /\ loads' = [loads EXCEPT ![i].stage = "done"]
  /\ saves' = SaveCalled(saves, loads[i].filename)
  /\ UNCHANGED <<tabs, rTabs, tabOrder, store, now>>
  /\ UNCHANGED paneVars
  /\ UNCHANGED bridgeVars

\* processVybBuffer: an await rejects and the catch sets the error state
processVybBufferCatch(i) ==
  /\ i \in DOMAIN loads
  /\ loads[i].stage \in Awaited
  /\ loadState' = "error"
  /\ loads' = [loads EXCEPT ![i].stage = "failed"]
  /\ UNCHANGED <<tabs, rTabs, tabOrder, store, saves, now,
            savedQueries, persisted, nextSq, tableInfo>>
  /\ UNCHANGED paneVars
  /\ UNCHANGED bridgeVars

\* files dropped one after the other, their loads, the panes of the
\* workspace and the recording of the files that were loaded
NextLoad ==
  \/ Len(loads) < MaxLoads /\ handleDrop(Len(loads) + 1)
  \/ \E i \in 1..MaxLoads, ok \in BOOLEAN : handleFileUploadResume(i, ok)
  \/ \E i \in 1..MaxLoads : processVybBufferStep(i)
  \/ \E i \in 1..MaxLoads : processVybBufferReady(i)
  \/ \E i \in 1..MaxLoads : processVybBufferCatch(i)
  \/ Render
  \/ IdsLeft(MaxLoadPanes) /\ ZBelow(MaxLoadPanes)
       /\ \E name \in TableNames : handleTableSelect(name)
  \/ handleTableSelectResume(TRUE)
  \/ \E i \in 1..MaxLoads, tick \in Ticks :
       now + tick <= MaxNow /\ saveRecentDbGetAll(i, tick)
  \/ \E i \in 1..MaxLoads : saveRecentDbPut(i)
  \/ \E i \in 1..MaxLoads : trimRecentGetAll(i)

SpecLoad == Init /\ [][NextLoad]_vars

\* ---------------------------------------------------- the saved queries
\* saved-query ids generated, and table panes
MaxSavedIds == 2
MaxSavedPanes == 1

\* what window.prompt returns: null when it is cancelled, else the text typed
PromptTexts == { << >>, <<" ">>, <<" ", " ">>, <<"a">>, <<" ", "a", " ">>,
                 <<"a", " ", "b">>, <<" ", "a", " ", "b">> }
Prompts == { [cancelled |-> TRUE, text |-> << >>] }
             \cup { [cancelled |-> FALSE, text |-> t] : t \in PromptTexts }

\* String.prototype.trim, the white space being the space
RECURSIVE TrimStart(_)
TrimStart(text) ==
  IF text # << >> /\ Head(text) = " " THEN TrimStart(Tail(text)) ELSE text

RECURSIVE TrimEnd(_)
TrimEnd(text) ==
  IF text # << >> /\ text[Len(text)] = " "
  THEN TrimEnd(SubSeq(text, 1, Len(text) - 1))
  ELSE text

\* (TrimNothing: the fault of taking the name as it was typed)
TrimNothing(text) == text
Trim(text) == TrimEnd(TrimStart(text))

\* !name?.trim()
NoName(prompt) == prompt.cancelled \/ Trim(prompt.text) = << >>

SavedQuery(id, name, sql) == [id |-> id, name |-> name, sql |-> sql]

\* the pane that tabs.find((t) => t.id === tabId) returns
FindTab(ts, tabId) == ts[First({ n \in DOMAIN ts : ts[n].id = tabId })]

\* localStorage.setItem(SAVED_QUERIES_KEY, JSON.stringify(next)), which can
\* throw (the quota); the item is kept as the list that it encodes
Persisted(old, next, stored) == IF stored THEN next ELSE old

\* handleSaveQuery(tabId), from the button of a table pane of the last
\* render.  savedQueries is written by click handlers only, so the list the
\* handler closed over is the latest.
handleSaveQuery(tabId, prompt, stored) ==
  /\ loadState = "ready"
  /\ tabId \in Ids(rTabs)
  /\ FindTab(rTabs, tabId).type = "table"
  /\ IF NoName(prompt)
     THEN UNCHANGED <<savedQueries, persisted, nextSq>>
     ELSE /\ nextSq' = nextSq + 1
          /\ savedQueries' = Append(savedQueries,
               SavedQuery(nextSq + 1, Trim(prompt.text), FindTab(rTabs, tabId).query))
          /\ persisted' = Persisted(persisted, savedQueries', stored)
  /\ UNCHANGED <<loadState, tabs, rTabs, tabOrder, ops, nextPane>>
  /\ NoDrag
  /\ UNCHANGED <<runs, lastRun, sizeLog, loads, store, saves, now, tableInfo>>
  /\ UNCHANGED bridgeVars

\* savedQueries.filter((q) => q.id !== id)
WithoutSaved(list, id) == SelectSeq(list, LAMBDA q : q.id # id)

\* handleDeleteSavedQuery(id), from the button of a saved query
handleDeleteSavedQuery(id, stored) ==
  /\ loadState = "ready"
  /\ \E n \in DOMAIN savedQueries : savedQueries[n].id = id
  /\ savedQueries' = WithoutSaved(savedQueries, id)
  /\ persisted' = Persisted(persisted, savedQueries', stored)
  /\ UNCHANGED <<loadState, tabs, rTabs, tabOrder, ops, nextPane, nextSq>>
  /\ NoDrag
  /\ UNCHANGED <<runs, lastRun, sizeLog, loads, store, saves, now, tableInfo>>
  /\ UNCHANGED bridgeVars

\* table panes whose queries are saved
NextSaved ==
  \/ LoadStart
  \/ LoadEnd(TRUE)
  \/ Render
  \/ IdsLeft(MaxSavedPanes) /\ ZBelow(MaxSavedPanes)
       /\ \E name \in TableNames : handleTableSelect(name)
  \/ handleTableSelectResume(TRUE)
  \/ \E id \in 1..MaxSavedPanes, query \in QueryTexts : handleQueryChange(id, query)
  \/ nextSq < MaxSavedIds
       /\ \E id \in 1..MaxSavedPanes, prompt \in Prompts, stored \in BOOLEAN :
            handleSaveQuery(id, prompt, stored)
  \/ \E id \in 1..MaxSavedIds, stored \in BOOLEAN : handleDeleteSavedQuery(id, stored)

SpecSaved == Init /\ [][NextSaved]_vars

\* ------------------------------------------- the primary key of a table
\* (src/src/dbWorker.ts, getTableInfo)
\* columns of a table
MaxCols == 5

\* the pk values that PRAGMA table_info reports for n columns: 0 for a
\* column outside the primary key, and else the place of the column in the
\* primary key, from 1 on
PkOrdinals(n) ==
  { f \in [1..n -> 0..n] :
      { f[c] : c \in { d \in 1..n : f[d] > 0 } }
        = 1..Cardinality({ d \in 1..n : f[d] > 0 }) }

\* the rows of PRAGMA table_info, in the order of the declaration; the name
\* of a column is the number of its row
TableInfoRows ==
  UNION { { [c \in 1..n |-> [name |-> c, pk |-> f[c]]] : f \in PkOrdinals(n) } :
          n \in 0..MaxCols }

\* if (pk > 0) primaryKey.push(colName), row after row
Pushed(rows) ==
  LET keyRows == SelectSeq(rows, LAMBDA row : row.pk > 0)
  IN [n \in DOMAIN keyRows |-> keyRows[n].name]

\* columnDetails.find((c) => c.name === a)?.pk ?? 0
Ordinal(rows, a) ==
  IF \E n \in DOMAIN rows : rows[n].name = a
  THEN rows[First({ n \in DOMAIN rows : rows[n].name = a })].pk
  ELSE 0

\* primaryKey.sort((a, b) => aOrd - bOrd): the sort is stable, so a name is
\* placed behind the names that are not to be placed behind it
RECURSIVE SortedByOrdinal(_, _)
SortedByOrdinal(rows, names) ==
  IF names = << >> THEN << >>
  ELSE LET front == SortedByOrdinal(rows, SubSeq(names, 1, Len(names) - 1))
           a == names[Len(names)]
           before == { n \in DOMAIN front : Ordinal(rows, front[n]) <= Ordinal(rows, a) }
           at == IF before = {} THEN 0
                 ELSE CHOOSE n \in before : \A m \in before : m <= n
       IN SubSeq(front, 1, at) \o <<a>> \o SubSeq(front, at + 1, Len(front))

\* (PrimaryKeyAsDeclared: the fault of leaving the names in the order of the
\* declaration)
PrimaryKeyAsDeclared(rows) == Pushed(rows)
PrimaryKey(rows) == SortedByOrdinal(rows, Pushed(rows))

\* getTableInfo on a table whose PRAGMA table_info gives rows; the info of
\* a table is read once, when its database is loaded
WorkerTableInfo(rows) ==
  /\ tableInfo.rows = << >>
  /\ tableInfo' = [rows |-> rows, primaryKey |-> PrimaryKey(rows)]
  /\ UNCHANGED <<loadState, tabs, rTabs, tabOrder, ops, nextPane>>
  /\ NoDrag
  /\ UNCHANGED <<runs, lastRun, sizeLog, loads, store, saves, now,
                 savedQueries, persisted, nextSq>>
  /\ UNCHANGED bridgeVars

NextInfo == \E rows \in TableInfoRows : WorkerTableInfo(rows)

SpecInfo == Init /\ [][NextInfo]_vars

\* ------------------------------------------------ the size of the canvas
CANVAS_MARGIN == 120
MIN_CANVAS_WIDTH == 800
MIN_CANVAS_HEIGHT == 600

\* Math.max(...ts.map((t) => t.x + t.width)), and the same for the height,
\* for a collection that is not empty
MathMaxRight(ts) ==
  CHOOSE r \in { ts[n].x + ts[n].width : n \in DOMAIN ts } :
    \A n \in DOMAIN ts : ts[n].x + ts[n].width <= r
MathMaxBottom(ts) ==
  CHOOSE b \in { ts[n].y + ts[n].height : n \in DOMAIN ts } :
    \A n \in DOMAIN ts : ts[n].y + ts[n].height <= b

\* canvasSize, the memo of tabs
\* (canvasSizeOfBox: the fault of leaving out the floor)
canvasSizeOfBox(ts) ==
  IF ts = << >> THEN [width |-> 0, height |-> 0]
  ELSE [width |-> MathMaxRight(ts) + CANVAS_MARGIN,
        height |-> MathMaxBottom(ts) + CANVAS_MARGIN]
canvasSize(ts) ==
  IF ts = << >> THEN [width |-> 0, height |-> 0]
  ELSE [width |-> Max2(MathMaxRight(ts) + CANVAS_MARGIN, MIN_CANVAS_WIDTH),
        height |-> Max2(MathMaxBottom(ts) + CANVAS_MARGIN, MIN_CANVAS_HEIGHT)]

\* panes of the canvas, and the widths their resize observers report
MaxCanvasPanes == 1
CanvasWidths == {320, 600, 900}

\* panes that are opened, resized and closed
NextCanvas ==
  \/ LoadStart
  \/ LoadEnd(TRUE)
  \/ Render
  \/ IdsLeft(MaxCanvasPanes) /\ ZBelow(MaxCanvasPanes)
       /\ \E name \in TableNames : handleTableSelect(name)
  \/ handleTableSelectResume(TRUE)
  \/ \E id \in 1..MaxCanvasPanes : handleCloseTab(id)
  \/ \E id \in 1..MaxCanvasPanes, width \in CanvasWidths, height \in Heights :
       updatePaneSize(id, width, height)

SpecCanvas == Init /\ [][NextCanvas]_vars

\* ======================================================================
\* Claims about reordering, queries, closing, loading and the recent files
\* ======================================================================

\* what reorderTabBar(dragId, index) has to make of the order old
Reordered(old, new, dragId, index) ==
  IF IndexOf(old, dragId) = -1 \/ IndexOf(old, dragId) = index
  THEN new = old
  ELSE /\ Len(new) = Len(old)
       /\ OrderSet(new) = OrderSet(old)
       /\ new[index + 1] = dragId
       /\ \A a, b \in OrderSet(old) \ {dragId} : Before(old, a, b) <=> Before(new, a, b)

\* C23: reordering a tab that is in tabOrder at another index to an index
\* within tabOrder gives a permutation with the tab at that index and the
\* other ids in their old relative order; with a tab that is not in tabOrder
\* or is already at the index, tabOrder is unchanged.
\* (stated of reorderTabBar's update, for every tabOrder that is reached and
\* every tab and index it can be called with; 0 is an id that no tab has)
C23_ReorderMovesOneTab ==
  \A dragId \in 0..MaxTabPanes, index \in 0..(Len(tabOrder) - 1) :
    Reordered(tabOrder, ReorderUpdate(tabOrder, dragId, index), dragId, index)

\* the first of three tabs was dropped on the last one
C23_Witness == tabOrder = <<2, 3, 1>>

\* the pane tabId of ts, in a set (empty when it is not live)
PaneOf(ts, tabId) == { ts[n] : n \in { m \in DOMAIN ts : ts[m].id = tabId } }

\* what the caller of a failed request was rejected with
FailureMessage(outcome) == IF outcome = "error" THEN EngineMessage ELSE WorkerEventMessage

\* C24 as stated: running a pane's query first empties its error and query
\* result; a response applied to a live pane leaves, on success, the returned
\* result and no error and, on failure, the failure's message as error and
\* no query result.
C24_ErrorIsFailureMessage ==
  [][ /\ \A id \in 1..MaxQueryPanes :
           handleExecuteQuery(id) =>
             \A t \in PaneOf(tabs', id) : t.error = "null" /\ t.queryResult = "null"
      /\ \A outcome \in Outcomes :
           handleExecuteQueryResume(outcome) =>
             \A t \in PaneOf(tabs', Head(runs).tabId) :
               IF outcome = "ok"
               THEN t.queryResult = ResultOf(Head(runs).query) /\ t.error = "null"
               ELSE t.error = FailureMessage(outcome) /\ t.queryResult = "null" ]_vars

\* C24 amended: on failure the error is the message of the Error the request
\* was rejected with and, when it was rejected with something that is not an
\* Error (the error event of the worker), the text "Failed to execute SQL
\* query".
C24_ErrorIsMessageOrFallback ==
  [][ /\ \A id \in 1..MaxQueryPanes :
           handleExecuteQuery(id) =>
             \A t \in PaneOf(tabs', id) : t.error = "null" /\ t.queryResult = "null"
      /\ \A outcome \in Outcomes :
           handleExecuteQueryResume(outcome) =>
             \A t \in PaneOf(tabs', Head(runs).tabId) :
               CASE outcome = "ok" ->
                      t.queryResult = ResultOf(Head(runs).query) /\ t.error = "null"
                 [] outcome = "error" ->
                      t.error = EngineMessage /\ t.queryResult = "null"
                 [] outcome = "event" ->
                      t.error = "Failed to execute SQL query" /\ t.queryResult = "null" ]_vars

\* one pane shows the result of its query, another the fallback text
C24_Witness ==
  /\ \E n \in DOMAIN tabs : tabs[n].queryResult = "rows of default" /\ tabs[n].error = "null"
  /\ \E n \in DOMAIN tabs : tabs[n].error = FallbackMessage /\ tabs[n].queryResult = "null"

\* C25: a failed run changes only the error and the query result of its
\* pane: the pane stays open with its default view, query text, geometry and
\* z-order, every other pane is unchanged, and the load state stays ready.
C25_FailedRunIsLocal ==
  [][ \A outcome \in Outcomes \ {"ok"} :
        handleExecuteQueryResume(outcome) =>
          /\ Len(tabs') = Len(tabs)
          /\ \A n \in DOMAIN tabs :
               IF tabs[n].id = Head(runs).tabId
               THEN tabs'[n] = [tabs[n] EXCEPT !.error = tabs'[n].error,
                                               !.queryResult = tabs'[n].queryResult]
               ELSE tabs'[n] = tabs[n]
          /\ tabOrder' = tabOrder
          /\ loadState = "ready" /\ loadState' = "ready" ]_vars

\* the run of one of two open panes failed: it shows the error over its
\* default view
C25_Witness ==
  /\ Len(tabs) = 2
  /\ lastRun.live
  /\ \E n \in DOMAIN tabs :
       /\ tabs[n].tableName = lastRun.tableName
       /\ tabs[n].error = EngineMessage
       /\ tabs[n].tableData = "rows"

\* C26: the response of a run whose pane was closed meanwhile leaves tabs and
\* tabOrder unchanged: no pane is re-created and no other pane, a pane opened
\* later for the same table included, receives the result or the error.
C26_ResponseForClosedPaneIsDiscarded ==
  [][ \A outcome \in Outcomes :
        (handleExecuteQueryResume(outcome) /\ Head(runs).tabId \notin Ids(tabs)) =>
          (tabs' = tabs /\ tabOrder' = tabOrder) ]_vars

\* the last response belonged to a closed pane, and a pane that was opened
\* for the same table shows neither a result nor an error
C26_Witness ==
  /\ ~lastRun.live
  /\ \E n \in DOMAIN tabs :
       /\ tabs[n].tableName = lastRun.tableName
       /\ tabs[n].queryResult = "null"
       /\ tabs[n].error = "null"

\* C27: a change of a table pane's query text sets that pane's query and
\* empties its error, and changes nothing else of the latest tabs, updates
\* that are not rendered yet included.
C27_QueryChangeKeepsLatestTabs ==
  [][ \A id \in 1..MaxEditPanes, query \in QueryTexts :
        handleQueryChange(id, query) =>
          /\ Len(tabs') = Len(tabs)
          /\ \A n \in DOMAIN tabs :
               IF tabs[n].id = id
               THEN tabs'[n] = [tabs[n] EXCEPT !.query = query, !.error = "null"]
               ELSE tabs'[n] = tabs[n] ]_vars

\* C28: closing a pane removes that pane and its id from tabOrder and
\* nothing else: the other panes are unchanged and in their old order, and
\* closing an id that is not live changes nothing.
C28_CloseRemovesOnePane ==
  [][ /\ \A id \in 1..MaxQueryPanes :
           handleCloseTab(id) =>
             /\ Ids(tabs') = Ids(tabs) \ {id}
             /\ \A t \in PaneOf(tabs', id) : FALSE
             /\ \A other \in Ids(tabs') : PaneOf(tabs', other) = PaneOf(tabs, other)
             /\ \A a, b \in Ids(tabs') :
                  Before([n \in DOMAIN tabs |-> tabs[n].id], a, b)
                    <=> Before([n \in DOMAIN tabs' |-> tabs'[n].id], a, b)
             /\ OrderSet(tabOrder') = OrderSet(tabOrder) \ {id}
             /\ \A a, b \in OrderSet(tabOrder') :
                  Before(tabOrder, a, b) <=> Before(tabOrder', a, b)
      /\ \A id \in 0..MaxQueryPanes :
           id \notin Ids(tabs) =>
             /\ TabsAfterClose(tabs, id) = tabs
             /\ id \notin OrderSet(tabOrder) => OrderAfterClose(tabOrder, id) = tabOrder ]_vars

\* the first of two panes was closed; the second one is open with the
\* result of its query
C28_Witness ==
  /\ nextPane = 2
  /\ Len(tabs) = 1
  /\ tabs[1].id = 2
  /\ tabs[1].queryResult = "rows of default"
  /\ tabOrder = <<2>>

\* C29: the load state is ready only after the extraction, openDb,
\* getTableNames and every getTableInfo of a load have succeeded; when one of
\* them fails the load state is error and there are no panes, and a load
\* that failed does not go on to make the load state ready.
C29_FailedLoadIsErrorWithoutPanes ==
  /\ [](loadState = "ready" => \E i \in DOMAIN loads : loads[i].stage = "done")
  /\ [][\A i \in 1..MaxLoads :
          processVybBufferCatch(i) => loadState' = "error" /\ tabs' = << >>]_vars
  /\ [][\A i \in DOMAIN loads :
          loads[i].stage = "failed" => loads'[i].stage = "failed"]_vars

\* what a Record evicts is no newer than what it leaves in the store
EvictsOldest(old, new) == \A e \in old \ new, r \in new : e.openedAt <= r.openedAt

\* C30: when a Record completes, trim included, the store holds at
\* most 10 entries and no entry it evicted was opened later than an entry it
\* kept, however many files of distinct names are recorded.
C30_CompletedRecordLeavesTenNewest ==
  [][\A i \in 1..MaxRecords :
       (trimRecentGetAll(i) \/ trimRecentDelete(i)) /\ saves'[i] = SaveDone
         => /\ Cardinality(store') <= MAX_RECENT
            /\ EvictsOldest(store, store')]_vars

\* the entries of a file name, and the latest openedAt among them
EntriesOf(all, filename) == { e \in all : e.filename = filename }
LatestOf(all, filename) ==
  IF EntriesOf(all, filename) = {} THEN -1
  ELSE CHOOSE t \in { e.openedAt : e \in EntriesOf(all, filename) } :
         \A e \in EntriesOf(all, filename) : e.openedAt <= t

\* C31: once every Record has completed, the store holds one entry at most
\* for a file name, and the put of a Record leaves the latest openedAt of
\* its file name in the store, also when Records of one file name overlap.
C31_OneEntryForAFileName ==
  /\ [](InProgress(saves) = {}
          => \A filename \in FileNames : Cardinality(EntriesOf(store, filename)) <= 1)
  /\ [][\A i \in 1..MaxRerecords :
          saveRecentDbPut(i)
            => /\ LatestOf(store', saves[i].filename) >= LatestOf(store, saves[i].filename)
               /\ LatestOf(store', saves[i].filename) >= saves[i].openedAt]_vars

\* a text of spaces only, and a name that is a text without the spaces
\* around it
OnlySpaces(text) == \A n \in DOMAIN text : text[n] = " "
IsTrimOf(name, text) ==
  /\ name # << >>
  /\ name[1] # " " /\ name[Len(name)] # " "
  /\ \E a \in DOMAIN text :
       /\ a + Len(name) - 1 <= Len(text)
       /\ name = SubSeq(text, a, a + Len(name) - 1)
       /\ \A n \in DOMAIN text : (n < a \/ n > a + Len(name) - 1) => text[n] = " "

\* C32: saving a query under a name that is empty or white space leaves the
\* list and the persisted list as they are; under another name the list
\* gets one entry at its end, with the trimmed name and the query of the
\* pane, and the entries before it are kept in their order.
C32_SaveAppendsTrimmedName ==
  [][\A id \in 1..MaxSavedPanes, prompt \in Prompts, stored \in BOOLEAN :
       handleSaveQuery(id, prompt, stored) /\ ~prompt.cancelled
         => IF OnlySpaces(prompt.text)
            THEN savedQueries' = savedQueries /\ persisted' = persisted
            ELSE /\ Len(savedQueries') = Len(savedQueries) + 1
                 /\ SubSeq(savedQueries', 1, Len(savedQueries)) = savedQueries
                 /\ IsTrimOf(savedQueries'[Len(savedQueries')].name, prompt.text)
                 /\ savedQueries'[Len(savedQueries')].sql = FindTab(tabs, id).query]_vars

\* two queries were saved, the second under a name typed with spaces around
\* it and with the query typed into the pane
C32_Witness ==
  /\ Len(savedQueries) = 2
  /\ savedQueries[1].name = <<"a">>
  /\ savedQueries[2].name = <<"a", " ", "b">>
  /\ savedQueries[2].sql = "typed"
  /\ persisted = savedQueries

\* the place of a column in the primary key, as the rows declare it
PkOf(rows, name) == rows[CHOOSE n \in DOMAIN rows : rows[n].name = name].pk

\* C33: the primary key that getTableInfo returns holds the columns whose pk
\* is greater than zero, each once, in the ascending order of their pk,
\* for every table.
C33_PrimaryKeyInOrdinalOrder ==
  LET rows == tableInfo.rows
      key == tableInfo.primaryKey
  IN /\ { key[n] : n \in DOMAIN key }
          = { rows[n].name : n \in { m \in DOMAIN rows : rows[m].pk > 0 } }
     /\ Len(key) = Cardinality({ m \in DOMAIN rows : rows[m].pk > 0 })
     /\ \A n, m \in DOMAIN key : n < m => PkOf(rows, key[n]) < PkOf(rows, key[m])

\* a table of three columns whose key columns are declared in the order
\* opposite to their places in the key
C33_Witness ==
  /\ Len(tableInfo.rows) = 3
  /\ tableInfo.rows[1].pk = 2 /\ tableInfo.rows[2].pk = 0 /\ tableInfo.rows[3].pk = 1
  /\ tableInfo.primaryKey = <<3, 1>>

\* the right and the bottom edge of the box around the panes
IsRight(ts, r) ==
  /\ \E n \in DOMAIN ts : ts[n].x + ts[n].width = r
  /\ \A n \in DOMAIN ts : ts[n].x + ts[n].width <= r
IsBottom(ts, b) ==
  /\ \E n \in DOMAIN ts : ts[n].y + ts[n].height = b
  /\ \A n \in DOMAIN ts : ts[n].y + ts[n].height <= b

\* the size is the greater of edge + 120 and the floor
IsCanvasOf(size, ts) ==
  /\ size.width >= MIN_CANVAS_WIDTH
  /\ size.height >= MIN_CANVAS_HEIGHT
  /\ \A n \in DOMAIN ts :
       /\ size.width >= ts[n].x + ts[n].width + 120
       /\ size.height >= ts[n].y + ts[n].height + 120
  /\ \/ size.width = MIN_CANVAS_WIDTH
     \/ IsRight(ts, size.width - 120)
  /\ \/ size.height = MIN_CANVAS_HEIGHT
     \/ IsBottom(ts, size.height - 120)

ZOf(ts, tabId) == ts[CHOOSE n \in DOMAIN ts : ts[n].id = tabId].zIndex

\* a step that focuses the pane tabId: a click on its tab, or the selection
\* of its table or of the saved queries when it is their pane
Focused(tabId) ==
  \/ TabClick(tabId)
  \/ \E name \in TableNames :
       /\ handleTableSelect(name)
       /\ FindTableTab(rTabs, name) # {}
       /\ rTabs[First(FindTableTab(rTabs, name))].id = tabId
  \/ /\ openSavedQueriesPane
     /\ FindSavedQueries(rTabs) # {}
     /\ rTabs[First(FindSavedQueries(rTabs))].id = tabId

\* C35: the z-order of a live pane never decreases, and a focus or an
\* applied move of a live pane sets its z-order to a value strictly greater
\* than the one it had, whatever updates were applied since the state the
\* handler read.
C35_ZOrderOnlyGrows ==
  /\ [][\A id \in Ids(tabs) \cap Ids(tabs') : ZOf(tabs', id) >= ZOf(tabs, id)]_vars
  /\ [][\A id \in Ids(tabs) :
          (Focused(id) \/ (AppliedMove /\ dragPending.tabId = id))
            => ZOf(tabs', id) > ZOf(tabs, id)]_vars

\* C36: in every reachable state no two live panes have the same z-order,
\* also when the default query of a selected table is awaited while other
\* operations run.
C36_ZOrdersDiffer ==
  \A n, m \in DOMAIN tabs : n # m => tabs[n].zIndex # tabs[m].zIndex

\* C37: a promise is settled once at most, and a response whose id is not
\* in the pending map settles no promise and leaves the map as it is.
C37_SettledOnce ==
  /\ [][\A k \in DOMAIN promises : Settled(k) => promises'[k] = promises[k]]_vars
  /\ [][(OnMessage /\ Head(fromWorker).id \notin DOMAIN pending)
          => promises' = promises /\ pending' = pending]_vars

\* the only request, an open, was rejected by the error event of the worker;
\* the worker has created the database and its response has been handled
C37_Witness ==
  /\ Len(promises) = 1
  /\ promises[1].kind = "open"
  /\ promises[1].state = "rejected"
  /\ promises[1].value.tag = "ErrorEvent"
  /\ created = 1
  /\ toWorker = << >>
  /\ fromWorker = << >>

DbRequests == {"exec", "getTableNames", "getTableInfo", "export"}

\* the worker takes a request for the database while it holds none
HandledWithoutDb ==
  /\ toWorker # << >>
  /\ Head(toWorker).type \in DbRequests
  /\ db.inst = 0
  /\ toWorker' = Tail(toWorker)

\* C38: while the worker holds no open database, every exec, getTableNames,
\* getTableInfo and export request it handles is answered with an error
\* response that carries the id of the request and leaves the worker without
\* a database, and the bridge rejects the promise of that request with it.
C38_NoDbAnswersError ==
  /\ [][HandledWithoutDb
          => /\ Len(fromWorker') = Len(fromWorker) + 1
             /\ fromWorker'[Len(fromWorker')].type = "error"
             /\ fromWorker'[Len(fromWorker')].id = Head(toWorker).id
             /\ db' = db]_vars
  /\ [][(OnMessage /\ Head(fromWorker).type = "error"
           /\ Head(fromWorker).id \in DOMAIN pending)
          => promises'[pending[Head(fromWorker).id]].state = "rejected"]_vars

\* a database was opened, a later open failed on its bytes, and a request
\* that followed was rejected because no database is open
C38_Witness ==
  /\ created >= 1
  /\ db.inst = 0
  /\ \E k \in DOMAIN promises :
       /\ promises[k].kind \in DbRequests
       /\ promises[k].state = "rejected"
       /\ promises[k].value.message = NotOpenMessage
       /\ \E j \in 1..(k - 1) :
            /\ promises[j].kind = "open"
            /\ promises[j].state = "rejected"
            /\ promises[j].value.message = ImageMessage

\* the gesture ends: pointer up or pointer cancel
GestureEnds == draggingTabId # 0 /\ draggingTabId' = 0

\* the panes other than tabId
Others(ts, tabId) == SelectSeq(ts, LAMBDA t : t.id # tabId)

\* C39: when a drag gesture ends with a pointer-move not yet applied, the
\* position of the last pointer-move is applied, clamped, to the dragged pane
\* and the gesture's state is cleared with it; if the pane was closed
\* meanwhile the panes are unchanged; and once the gesture has ended no step
\* changes the position of a pane.
C39_EndOfDragFlushes ==
  /\ [][(GestureEnds /\ dragLog.moves # << >>) =>
          LET last == dragLog.moves[Len(dragLog.moves)] IN
            /\ IF draggingTabId \in Ids(tabs)
               THEN /\ Position(tabs', draggingTabId)
                         = { <<Clamped(last[1]), Clamped(last[2])>> }
                    /\ Others(tabs', draggingTabId) = Others(tabs, draggingTabId)
               ELSE tabs' = tabs
            /\ dragPending' = NoPending
            /\ ~dragRaf']_vars
  /\ [][draggingTabId = 0 =>
          \A id \in Ids(tabs) \cap Ids(tabs') :
            Position(tabs', id) = Position(tabs, id)]_vars
  /\ [](draggingTabId = 0 => ~dragRaf /\ dragPending = NoPending)

\* a gesture has ended after two pointer-moves that were applied as one, and
\* the pane stands at the clamped position of the second one
C39_Witness ==
  /\ draggingTabId = 0
  /\ ~dragRaf
  /\ Len(dragLog.flushed) = 2
  /\ \E n \in DOMAIN tabs :
       <<tabs[n].x, tabs[n].y>>
         = <<Clamped(dragLog.flushed[2][1]), Clamped(dragLog.flushed[2][2])>>

\* a table pane that shows an error and a query-result at once
ErrorAndResult(t) ==
  t.type = "table" /\ t.error # "null" /\ t.queryResult # "null"

\* C40: in every reachable state no table pane has both an error and a
\* query-result, in the latest panes and in the rendered ones, whatever the
\* order of query changes, runs and responses, several runs of one pane
\* being in flight at once.
C40_ErrorOrResult ==
  /\ \A n \in DOMAIN tabs : ~ErrorAndResult(tabs[n])
  /\ \A n \in DOMAIN rTabs : ~ErrorAndResult(rTabs[n])

\* a pane shows the result of a run while a later run of it, started before
\* that result arrived, is still awaited
C40_Witness ==
  /\ Len(runs) = 1
  /\ \E n \in DOMAIN tabs :
       /\ tabs[n].id = runs[1].tabId
       /\ tabs[n].queryResult # "null"
       /\ tabs[n].error = "null"

====
